---- MODULE Spec2Model ----
(***************************************************************************)
(* A model of the vocals SDK (package vocals):                             *)
(*   - WebSocketClient  (pkg/vocals/websocket_client.go): the connection   *)
(*     state machine, the bounded retry, the inbound loop, the handler     *)
(*     fan-out, SendMessage and Disconnect;                                *)
(*   - AudioProcessor   (pkg/vocals/audio_processor.go): the playback      *)
(*     queue and the play cycles.                                          *)
(* Every goroutine is a process of the model; a step is one stretch of     *)
(* code between two points where another goroutine can observe or change   *)
(* the shared fields.  Code that runs under a mutex that every other       *)
(* accessor also takes is one step; code that touches the fields without   *)
(* the mutex (messageLoop) is split at each access.                        *)
(***************************************************************************)
EXTENDS Integers, Sequences, FiniteSets, TLC

(***************************************************************************)
(* Bounds of the model.                                                    *)
(***************************************************************************)
MaxAttempts == 2   \* config.MaxReconnectAttempts is drawn from 0..MaxAttempts
NumCallers  == 2   \* user goroutines calling Connect / SendMessage / Disconnect
MaxOps      == 2   \* user operations invoked in one behaviour
MaxDialOk   == 2   \* successful dials (connections created) in one behaviour
MaxMsgs     == 2   \* inbound messages the transport delivers in one behaviour
MaxAdds     == 3   \* AddToQueue calls in one behaviour
MaxCtl      == 2   \* Clear / Stop / Pause / Resume calls in one behaviour
MaxHandlers == 2   \* AddXHandler calls per handler list
MaxSamples  == 3   \* samples in one encoded sequence
MaxChannels == 2   \* audioConfig.Channels is drawn from 1..MaxChannels
MaxTicks    == 5   \* buffer periods of wall-clock time in one behaviour
MaxFrames   == 3   \* capture buffers handled by the auto-interrupt debounce
DebounceTicks == 2 \* the 500 ms debounce window, in buffer periods
MaxLiveAdds == 2   \* AddToQueue calls in SpecAPLive
MaxLiveCtl  == 1   \* control calls in SpecAPLive
MaxTurns    == 4   \* turns created in one behaviour
MaxHistoryBound == 2 \* config.MaxHistory and SetMaxHistory arguments go up to this
MaxImport   == 2   \* turns in an imported history file
MaxSets     == 2   \* SetMaxHistory calls in one behaviour
MaxBuffer   == 3   \* refreshBuffer is drawn from 0..MaxBuffer half seconds
MaxNow      == 4   \* half seconds of wall-clock time for the token manager
MaxTTL      == 4   \* a refreshed token lives 0..MaxTTL half seconds
MaxIssued   == 2   \* refresh requests in one behaviour
MaxInbound  == 2   \* messages ReadJSON returns to the internal handler
MaxSessDials == 2  \* connections established in one session
MaxMedia    == 2   \* media frames the capture sink writes on one connection
MaxSessOps  == 2   \* direct Connect calls in one session
MaxEpisodes == 2   \* Connect and reconnection episodes with the token step
MaxTextLimit == 3  \* config.MaxTextLength is drawn from 1..MaxTextLimit
MaxText     == 2   \* characters in the text of one transcription message
MaxUtter    == 3   \* transcription messages in one behaviour
MaxPrompts  == 2   \* sendToAI goroutines spawned in one behaviour
MaxResponses == 2  \* response messages in one behaviour
MaxInterrupts == 2 \* interruption paths started in one behaviour
MaxFlips    == 1   \* changes of the connection state during the interruptions
MaxCbFrames == 2   \* capture callback invocations in one behaviour
MaxCapEpisodes == 2 \* Connect calls and reconnections beside the capture callback
MaxListOps  == 2   \* AddXHandler and deregistration calls beside the fan-out loops
MaxFans     == 2   \* fan-out loops in one behaviour
MaxFinClock == 4   \* buffer periods of wall clock around one statistics session
MaxFinFrames == 3  \* capture callback invocations around one statistics session
MaxBufOps   == 4   \* transcriptions and calls on the pending-utterance buffer
AmpFrameLen == 2   \* samples in one capture buffer of the amplitude checks
MaxAmpSample == 2  \* largest absolute sample value of the amplitude checks
MaxAmpFrames == 2  \* capture buffers of the amplitude checks
MaxAmpReads == 2   \* GetCurrentAmplitude calls of the amplitude checks
MaxPlaySamples == 8 \* samples in a played segment of the timeout checks
MaxPlayRate == 4   \* largest sample rate of the timeout checks, in samples per second
MaxClMsgs   == 3   \* inbound messages and Cleanup calls of the cleanup checks
MaxAcSets   == 2   \* EnableAutoInterrupt calls of the setting checks
MaxAcFrames == 4   \* capture frames of the setting checks

\* NewVocalsConfig: MaxReconnectAttempts: 3 (config.go:30)
DefaultMaxReconnectAttempts == 3

VARIABLES
    \* ---- WebSocketClient fields (websocket_client.go:15-29)
    maxReconnectAttempts,  \* config.MaxReconnectAttempts
    state,                 \* wsc.state
    conn,                  \* wsc.conn: 0 is nil, k > 0 the k-th connection dialled
    reconnectAttempts,     \* wsc.reconnectAttempts
    shouldReconnect,       \* wsc.shouldReconnect
    ctxDone,               \* wsc.ctx has been cancelled
    mu,                    \* wsc.mu: 0 is free, p > 0 the process holding it
    \* ---- the transport
    closed,                \* connections on which Close has been called
    dialled,               \* number of successful dials so far
    msgRead,               \* number of inbound messages read so far
    \* ---- goroutines
    pc,                    \* callers and handleReconnect goroutines
    dialRes,               \* result of the process's last performConnection
    loopPc,                \* messageLoop goroutines, one per successful dial
    loopConn,              \* the connection a messageLoop is blocked reading
    connNotes,             \* states passed to `go handler(state)`, in spawn order
    connSeen,              \* indices of connNotes, in the order the handler ran
    msgPending,            \* messages passed to `go handler(message)`, not yet run
    msgSeen,               \* messages in the order the message handler ran
    \* ---- observations of the calls (history)
    ops,                   \* user operations invoked so far
    invState,              \* wsc.state at the moment Connect was called
    dials,                 \* performConnection calls made by the process's call
    res,                   \* what the process's call returns
    notes,                 \* handleError calls made by the process's call
    sendObs,               \* wsc.state as SendMessage read it
    sendWrites,            \* WriteJSON calls made by the SendMessage call
    discReturned,          \* Disconnect has returned and no Connect was called or entered since
    \* ---- AudioProcessor fields (audio_processor.go:32-46)
    audioQueue,            \* ap.audioQueue
    playbackState,         \* ap.playbackState
    currentSegment,        \* ap.currentSegment: 0 is nil, else the segment's payload
    autoPlayback,          \* ap.autoPlayback
    \* ---- goroutines
    playSpawned,           \* `go ap.playNextSegment()` goroutines that have not started
    cyclePc,               \* the play cycle that popped the segment with this payload
    \* ---- observations (history)
    addLog,                \* the AddToQueue calls, in order; call i carries payload i
    popLog,                \* payloads in the order the play cycles popped them
    ctl,                   \* Clear / Stop / Pause / Resume / ProcessQueue calls so far
    cleared                \* payloads that were pending when ClearQueue was called

wsVars == <<maxReconnectAttempts, state, conn, reconnectAttempts, shouldReconnect,
            ctxDone, mu, closed, dialled, msgRead, pc, dialRes, loopPc, loopConn,
            connNotes, connSeen, msgPending, msgSeen, ops, invState, dials, res,
            notes, sendObs, sendWrites, discReturned>>

apVars == <<audioQueue, playbackState, currentSegment, autoPlayback, playSpawned,
            cyclePc, addLog, popLog, ctl, cleared>>

VARIABLES
    \* ---- the handler lists (websocket_client.go:23-25, audio_processor.go:42-43)
    handlerList,           \* per kind of event, the registrations in the list
    regCount,              \* per kind, the AddXHandler calls made so far
    deregistered,          \* per kind, registrations whose returned function was called
    lateInvoked,           \* per kind, registrations invoked after that call returned
    deregObs               \* the last call of a returned function: list before and after

hVars == <<handlerList, regCount, deregistered, lateInvoked, deregObs>>

VARIABLES
    \* ---- one EncodeAudioToBase64 / DecodeAudioFromBase64 round trip
    codecIn,               \* the samples passed to EncodeAudioToBase64
    codecWire,             \* the string it returned
    codecOut,              \* what DecodeAudioFromBase64 returned for that string
    codecPc                \* how far the round trip has gone

codecVars == <<codecIn, codecWire, codecOut, codecPc>>

VARIABLES
    \* ---- one StreamMicrophoneWithStats session (client.go:238-372)
    channels,              \* audioConfig.Channels
    clock,                 \* the wall clock
    stPc,                  \* how far the session has gone
    statsStart,            \* stats.StartTime
    recStart,              \* the instant the capture stream was started
    captured,              \* buffers the capture callback has delivered
    framesPending,         \* buffers passed to `go h(in)`, handler not yet run
    voiceActivityDuration, \* voiceActivityDuration
    statsDuration,         \* stats.Duration
    voiceActivityRatio,    \* stats.VoiceActivityRatio
    framesHandled          \* buffers the statistics handler has processed

statsVars == <<channels, clock, stPc, statsStart, recStart, captured, framesPending,
               voiceActivityDuration, statsDuration, voiceActivityRatio,
               framesHandled>>

VARIABLES
    \* ---- Conversation: the auto-interrupt debounce (conversation.go:135-156)
    dbFrames,              \* capture buffers so far: level and capture instant
    currentAmplitude,      \* ap.currentAmplitude against InterruptThreshold
    hPc,                   \* the handleAudioForInterrupt goroutine of each buffer
    interruptTimer,        \* c.interruptTimer: 0 is nil, else a timer
    timers,                \* the timers created by time.AfterFunc
    interruptCalls         \* calls of c.Interrupt by timers

dbVars == <<dbFrames, currentAmplitude, hPc, interruptTimer, timers, interruptCalls>>

VARIABLES
    \* ---- Conversation: the turn history
    history,               \* c.history
    maxHistory,            \* c.config.MaxHistory
    turnCount,             \* turns created so far
    allCommitted,          \* every turn committed or imported, in commit order
    sinceImport,           \* the same since the last ImportHistory, its turns included
    maxRaised,             \* SetMaxHistory has raised the bound since the last ImportHistory
    maxSets                \* SetMaxHistory calls so far

histVars == <<history, maxHistory, turnCount, allCommitted, sinceImport, maxRaised,
              maxSets>>

VARIABLES
    \* ---- TokenManager fields (token_manager.go:11-17)
    refreshBuffer,         \* tm.refreshBuffer
    tmToken,               \* tm.token: 0 is nil, else the n-th token issued
    tmExpiresAt,           \* tm.expiresAt
    tmNow,                 \* time.Now()
    tmIssued,              \* refresh requests made so far
    tmReturned             \* what the last GetToken call returned, and when it was called

tokVars == <<refreshBuffer, tmToken, tmExpiresAt, tmNow, tmIssued, tmReturned>>

VARIABLES
    \* ---- VocalsClient: the internal message handler (client.go:74-102)
    inbound,               \* the messages ReadJSON has returned, in order
    ttsLoop,               \* the messageLoop goroutine feeding the handler
    ttsPending,            \* `go handler(message)` goroutines that have not run
    ttsHandled             \* messages in the order the internal handler ran

ttsVars == <<inbound, ttsLoop, ttsPending, ttsHandled>>

VARIABLES
    \* ---- VocalsClient: connections, settings and media frames (client.go:116-218)
    sessState,             \* wsc.state as IsConnected and SendMessage read it
    sessConn,              \* wsc.conn: 0 is nil, k > 0 the k-th connection
    sessDialled,           \* connections established so far
    sessLoop,              \* the connection whose messageLoop is reading, 0 if none
    sessReconnect,         \* a spawned handleReconnect has not run yet
    sessOrigin,            \* per connection, the call that established it
    sessSent,              \* per connection, the events written on it, in order
    ecPc,                  \* the EnsureConnected call's position
    recording,             \* StartRecording has installed the capture sink
    sessOps                \* user calls of Connect so far

sessVars == <<sessState, sessConn, sessDialled, sessLoop,
    sessReconnect, sessOrigin, sessSent, ecPc,
    recording, sessOps>>

VARIABLES
    \* ---- connectWithRetry and performConnection with the token step (websocket_client.go:67-136)
    rtUseTokenAuth,        \* config.UseTokenAuth
    rtHasManager,          \* wsc.tokenManager != nil
    rtMax,                 \* config.MaxReconnectAttempts
    rtAttempts,            \* wsc.reconnectAttempts
    rtState,               \* wsc.state
    rtPc,                  \* the goroutine running the episode: where it is
    rtErr,                 \* what the last performConnection returned
    rtLog,                 \* the results of performConnection in this episode
    rtEpisodes             \* Connect and reconnection episodes started so far

rtVars == <<rtUseTokenAuth, rtHasManager, rtMax, rtAttempts,
    rtState, rtPc, rtErr, rtLog,
    rtEpisodes>>

VARIABLES
    \* ---- Conversation: the pending utterance, prompts and replies (conversation.go:74-133, 173-244)
    maxTextLength,         \* c.config.MaxTextLength
    currentText,           \* c.currentText, as its length
    aiPc,                  \* the sendToAI goroutines, in spawn order: where each is
    aiHistory,             \* the number of turns in the copy a sendToAI goroutine took
    aiSentAt,              \* responses that had arrived when the goroutine sent its prompt
    aiGot,                 \* the response its wait consumed, 0 for none
    responseChan,          \* c.responseChan: the buffered responses, oldest first
    respCount,             \* response messages handled so far
    uttCount,              \* transcription messages handled so far
    uttLast                \* the last transcription message handled

convVars == <<maxTextLength, currentText, aiPc, aiHistory,
    aiSentAt, aiGot, responseChan, respCount,
    uttCount, uttLast>>

VARIABLES
    \* ---- Conversation: the interruption path (conversation.go:116-122, 228-244)
    autoInterrupt,         \* c.config.AutoInterrupt
    intConnected,          \* wsc.state == Connected, as SendMessage finds it
    intMu,                 \* c.mu: 0 is free, g > 0 the interruption path holding it
    intKind,               \* per interruption path, what started it
    intPc,                 \* per interruption path, where it is
    intSent,               \* per path, the interrupt events it has sent
    intFades,              \* per path, its FadeOutAudio calls
    intFlips               \* changes of the connection state so far

intVars == <<autoInterrupt, intConnected, intMu, intKind,
    intPc, intSent, intFades, intFlips>>

VARIABLES
    \* ---- the capture sink against Connect and reconnection (client.go:186-218, websocket_client.go:53-92, 289-299)
    capMu,                 \* wsc.mu: "free", or held by "connect" or by "callback"
    capState,              \* wsc.state
    capAttempts,           \* wsc.reconnectAttempts
    capPc,                 \* the Connect or handleReconnect in progress: where it is
    cbPc,                  \* the capture callback: where it is
    cbFrames,              \* capture callback invocations so far
    cbSent,                \* frames the sink has written to the connection
    capEpisodes            \* Connect calls and reconnections started so far

capVars == <<capMu, capState, capAttempts, capPc,
    cbPc, cbFrames, cbSent, capEpisodes>>

VARIABLES
    \* ---- the handler lists: fan-out against mutation (websocket_client.go:186-190, 222-287, audio_processor.go:72-85, 325-340)
    listMu,                \* per owner of a list, its mutex: "free", or held by "mutator" or by "dispatch"
    mutOp,                 \* the AddXHandler or deregistration call in progress: "none", "add" or "dereg"
    mutKind,               \* the list that call mutates
    mutReg,                \* the registration a deregistration call is for
    fanSite,               \* the fan-out loop in progress, by its call site, or "none"
    mutOps,                \* mutating calls completed
    fanCount               \* fan-out loops completed

fanVars == <<listMu, mutOp, mutKind, mutReg, fanSite, mutOps, fanCount>>

VARIABLES
    \* ---- the StreamStats value StreamMicrophoneWithStats returns (client.go:238-372)
    finClock,              \* the wall clock, in buffer periods; the zero time.Time is 0
    finPc,                 \* the call: "recording", "stopped", "returned"
    finRecording,          \* a capture stream is open (this session's or a later one's)
    finList,               \* ap.audioDataHandlers, as registrations
    finPending,            \* `go h(in)` goroutines of audioHandler not yet run: whether the frame is above the threshold
    silenceStartTime,      \* silenceStartTime
    totalSilenceDuration,  \* totalSilenceDuration
    finStats,              \* the StreamStats the pointer `stats` refers to
    finReturned,           \* the fields of *stats at the instant the call returned
    finFrames              \* capture callback invocations so far

finVars == <<finClock, finPc, finRecording, finList,
    finPending, silenceStartTime, totalSilenceDuration, finStats,
    finReturned, finFrames>>

VARIABLES
    \* ---- Conversation: the pending-utterance buffer against its limit (conversation.go:84-100, 228-252, 322-330)
    bufLimit,              \* c.config.MaxTextLength
    bufText,               \* c.currentText, as its length
    bufFailed,             \* a transcription handler has panicked on its slice expression
    bufLog                 \* the calls and messages handled so far, in order

bufVars == <<bufLimit, bufText, bufFailed, bufLog>>

VARIABLES
    \* ---- ap.currentAmplitude: the capture callback against its readers (audio_processor.go:72-85, 385-389)
    ampValue,              \* ap.currentAmplitude
    ampFrame,              \* the buffer the capture callback is processing, as absolute sample values
    ampPc,                 \* the capture callback: 0 outside a buffer, else the index of the next sample to add
    ampMeans,              \* the mean absolute amplitudes of the buffers processed completely
    ampReads,              \* what GetCurrentAmplitude returned, call by call
    ampFrames              \* buffers started so far

ampVars == <<ampValue, ampFrame, ampPc, ampMeans, ampReads, ampFrames>>

VARIABLES
    \* ---- playNextSegment: the completion wait and its timeout (audio_processor.go:167-238)
    ptSamples,             \* len(samples) of the segment being played
    ptRate,                \* segment.SampleRate, in samples per second
    ptPc,                  \* the play cycle: "idle", "waiting", "completed", "timeout"
    ptTimeout,             \* the Duration passed to time.After, in seconds
    ptElapsed,             \* sample periods since stream.Start
    sampleIndex            \* sampleIndex of the playback callback

ptVars == <<ptSamples, ptRate, ptPc, ptTimeout, ptElapsed, sampleIndex>>

VARIABLES
    \* ---- Conversation.Cleanup against later inbound messages (conversation.go:65-69, 74-133, 365-376)
    clClosed,              \* close(c.responseChan) has been executed
    clChan,                \* texts buffered in c.responseChan
    clFailed,              \* a message handler has panicked
    clLog                  \* the messages dispatched to handleIncomingMessage and the Cleanup call, in order

clVars == <<clClosed, clChan, clFailed, clLog>>

VARIABLES
    \* ---- Conversation: the auto-interrupt setting (conversation.go:65-69, 135-156, 295-300)
    acCreated,             \* NewConversation has run
    acAuto,                \* c.config.AutoInterrupt
    acRegistered,          \* handleAudioForInterrupt is in ap.audioDataHandlers
    acTimer,               \* c.interruptTimer is not nil
    acInterrupts,          \* interrupt messages sent by debounce timers
    acHighRun,             \* above-threshold capture frames in a row since the setting was last set
    acSets,                \* EnableAutoInterrupt calls so far
    acFrames               \* capture frames so far

acVars == <<acCreated, acAuto, acRegistered, acTimer,
    acInterrupts, acHighRun, acSets, acFrames>>

vars == <<wsVars, apVars, hVars, codecVars, statsVars, dbVars, histVars, tokVars,
          ttsVars,
          sessVars,
          rtVars,
          convVars,
          intVars,
          capVars,
          fanVars,
          finVars,
          bufVars,
          ampVars,
          ptVars,
          clVars,
          acVars>>

\* What the actions of one component leave alone.
notWS == <<apVars, hVars, codecVars, statsVars, dbVars, histVars, tokVars,
            ttsVars,
            sessVars,
            rtVars,
            convVars,
            intVars,
            capVars,
            fanVars,
            finVars,
            bufVars,
            ampVars,
            ptVars,
            clVars,
            acVars>>
notAP == <<wsVars, hVars, codecVars, statsVars, dbVars, histVars, tokVars,
            ttsVars,
            sessVars,
            rtVars,
            convVars,
            intVars,
            capVars,
            fanVars,
            finVars,
            bufVars,
            ampVars,
            ptVars,
            clVars,
            acVars>>
notH  == <<wsVars, apVars, codecVars, statsVars, dbVars, histVars, tokVars,
            ttsVars,
            sessVars,
            rtVars,
            convVars,
            intVars,
            capVars,
            fanVars,
            finVars,
            bufVars,
            ampVars,
            ptVars,
            clVars,
            acVars>>
notCodec == <<wsVars, apVars, hVars, statsVars, dbVars, histVars, tokVars,
            ttsVars,
            sessVars,
            rtVars,
            convVars,
            intVars,
            capVars,
            fanVars,
            finVars,
            bufVars,
            ampVars,
            ptVars,
            clVars,
            acVars>>
notStats == <<wsVars, apVars, hVars, codecVars, dbVars, histVars, tokVars,
            ttsVars,
            sessVars,
            rtVars,
            convVars,
            intVars,
            capVars,
            fanVars,
            finVars,
            bufVars,
            ampVars,
            ptVars,
            clVars,
            acVars>>
notTok == <<wsVars, apVars, hVars, codecVars, statsVars, dbVars, histVars,
            ttsVars,
            sessVars,
            rtVars,
            convVars,
            intVars,
            capVars,
            fanVars,
            finVars,
            bufVars,
            ampVars,
            ptVars,
            clVars,
            acVars>>
notHist == <<wsVars, apVars, hVars, codecVars, statsVars, dbVars, tokVars,
            ttsVars,
            sessVars,
            rtVars,
            convVars,
            intVars,
            capVars,
            fanVars,
            finVars,
            bufVars,
            ampVars,
            ptVars,
            clVars,
            acVars>>
\* all but the clock, which the debounce shares with the statistics session
notDb == <<wsVars, apVars, hVars, codecVars, statsVars, histVars, tokVars,
            ttsVars,
            sessVars,
            rtVars,
            convVars,
            intVars,
            capVars,
            fanVars,
            finVars,
            bufVars,
            ampVars,
            ptVars,
            clVars,
            acVars>>
notTts == <<wsVars, apVars, hVars, codecVars, statsVars, dbVars, histVars,
            tokVars,
            sessVars,
            rtVars,
            convVars,
            intVars,
            capVars,
            fanVars,
            finVars,
            bufVars,
            ampVars,
            ptVars,
            clVars,
            acVars>>
notSess == <<wsVars, apVars, hVars, codecVars,
            statsVars, dbVars, histVars, tokVars,
            ttsVars,
            rtVars,
            convVars,
            intVars,
            capVars,
            fanVars,
            finVars,
            bufVars,
            ampVars,
            ptVars,
            clVars,
            acVars>>
notRt == <<wsVars, apVars, hVars, codecVars,
            statsVars, dbVars, histVars, tokVars,
            ttsVars, sessVars,
            convVars,
            intVars,
            capVars,
            fanVars,
            finVars,
            bufVars,
            ampVars,
            ptVars,
            clVars,
            acVars>>
notConv == <<wsVars, apVars, hVars, codecVars,
            statsVars, dbVars, histVars, tokVars,
            ttsVars, sessVars, rtVars,
            intVars,
            capVars,
            fanVars,
            finVars,
            bufVars,
            ampVars,
            ptVars,
            clVars,
            acVars>>
notConvHist == <<wsVars, apVars, hVars, codecVars,
            statsVars, dbVars, tokVars,
            ttsVars, sessVars, rtVars,
            intVars,
            capVars,
            fanVars,
            finVars,
            bufVars,
            ampVars,
            ptVars,
            clVars,
            acVars>>
notInt == <<wsVars, apVars, hVars, codecVars,
            statsVars, dbVars, histVars, tokVars,
            ttsVars, sessVars, rtVars, convVars,
            capVars,
            fanVars,
            finVars,
            bufVars,
            ampVars,
            ptVars,
            clVars,
            acVars>>
notConvInt == <<wsVars, apVars, hVars, codecVars,
            statsVars, dbVars, histVars, tokVars,
            ttsVars, sessVars, rtVars,
            capVars,
            fanVars,
            finVars,
            bufVars,
            ampVars,
            ptVars,
            clVars,
            acVars>>
notCap == <<wsVars, apVars, hVars, codecVars,
            statsVars, dbVars, histVars, tokVars,
            ttsVars, sessVars, rtVars, convVars,
            intVars,
            fanVars,
            finVars,
            bufVars,
            ampVars,
            ptVars,
            clVars,
            acVars>>
notFan == <<wsVars, apVars, hVars, codecVars,
            statsVars, dbVars, histVars, tokVars,
            ttsVars, sessVars, rtVars, convVars,
            intVars, capVars,
            finVars,
            bufVars,
            ampVars,
            ptVars,
            clVars,
            acVars>>

notHFan == <<wsVars, apVars, codecVars,
            statsVars, dbVars, histVars, tokVars,
            ttsVars, sessVars, rtVars, convVars,
            intVars, capVars,
            finVars,
            bufVars,
            ampVars,
            ptVars,
            clVars,
            acVars>>
notFin == <<wsVars, apVars, hVars, codecVars,
            statsVars, dbVars, histVars, tokVars,
            ttsVars, sessVars, rtVars, convVars,
            intVars, capVars, fanVars,
            bufVars,
            ampVars,
            ptVars,
            clVars,
            acVars>>
notBuf == <<wsVars, apVars, hVars, codecVars,
            statsVars, dbVars, histVars, tokVars,
            ttsVars, sessVars, rtVars, convVars,
            intVars, capVars, fanVars, finVars,
            ampVars,
            ptVars,
            clVars,
            acVars>>
notAmp == <<wsVars, apVars, hVars, codecVars,
            statsVars, dbVars, histVars, tokVars,
            ttsVars, sessVars, rtVars, convVars,
            intVars, capVars, fanVars, finVars,
            bufVars,
            ptVars,
            clVars,
            acVars>>
notPt == <<wsVars, apVars, hVars, codecVars,
            statsVars, dbVars, histVars, tokVars,
            ttsVars, sessVars, rtVars, convVars,
            intVars, capVars, fanVars, finVars,
            bufVars, ampVars,
            clVars,
            acVars>>
notCl == <<wsVars, apVars, hVars, codecVars,
            statsVars, dbVars, histVars, tokVars,
            ttsVars, sessVars, rtVars, convVars,
            intVars, capVars, fanVars, finVars,
            bufVars, ampVars, ptVars,
            acVars>>
notAc == <<wsVars, apVars, hVars, codecVars,
            statsVars, dbVars, histVars, tokVars,
            ttsVars, sessVars, rtVars, convVars,
            intVars, capVars, fanVars, finVars,
            bufVars, ampVars, ptVars, clVars>>

(***************************************************************************)
(* Processes.                                                              *)
(***************************************************************************)
Callers == 1..NumCallers
\* The user goroutine of the single-caller specification.
Main    == CHOOSE t \in Callers : TRUE
Loops   == 1..MaxDialOk
\* The handleReconnect goroutine spawned by messageLoop k.
Recon(k) == NumCallers + k
Recons  == {Recon(k) : k \in Loops}
Procs   == Callers \cup Recons

\* ConnectionState (types.go:36-44)
ConnectionStates == {"Disconnected", "Connecting", "Connected", "Reconnecting", "Error"}

\* ValidateVocalsConfig: MaxReconnectAttempts < 0 is rejected
ValidateVocalsConfig(n) == ~(n < 0)

(***************************************************************************)
(* NewWebSocketClient.  One connection subscriber, one message subscriber  *)
(* and one error subscriber are registered before the run starts.          *)
(***************************************************************************)
NewWebSocketClient ==
    /\ state = "Disconnected"
    /\ conn = 0
    /\ reconnectAttempts = 0
    /\ shouldReconnect = TRUE
    /\ ctxDone = FALSE
    /\ mu = 0
    /\ closed = {}
    /\ dialled = 0
    /\ msgRead = 0
    /\ pc = [p \in Procs |-> IF p \in Callers THEN "idle" ELSE "none"]
    /\ dialRes = [p \in Procs |-> "none"]
    /\ loopPc = [k \in Loops |-> "none"]
    /\ loopConn = [k \in Loops |-> 0]
    /\ connNotes = <<>>
    /\ connSeen = <<>>
    /\ msgPending = {}
    /\ msgSeen = <<>>
    /\ ops = 0
    /\ invState = [p \in Callers |-> "none"]
    /\ dials = [p \in Procs |-> 0]
    /\ res = [p \in Procs |-> "none"]
    /\ notes = [p \in Procs |-> 0]
    /\ sendObs = [p \in Callers |-> "none"]
    /\ sendWrites = [p \in Callers |-> 0]
    /\ discReturned = FALSE

(***************************************************************************)
(* setState: writes the state and spawns one `go handler(state)` per       *)
(* connection subscriber, only when the state changes.                     *)
(***************************************************************************)
\* A variant without the test, which notifies on every call.
setStateNotifyAlways(s) ==
    /\ state' = s
    /\ connNotes' = Append(connNotes, s)

setState(s) ==
    IF state # s
    THEN /\ state' = s
         /\ connNotes' = Append(connNotes, s)
    ELSE UNCHANGED <<state, connNotes>>

\* Connect's guard (websocket_client.go:57)
ConnectRefused(s) == s = "Connected" \/ s = "Connecting"

\* SendMessage's guard (websocket_client.go:196); first a variant that
\* refuses only in state Disconnected, then the guard as written
SendAllowedAnyLive(s) == s # "Disconnected"
SendAllowed(s) == s = "Connected"

\* where connectWithRetry returns to
RetPc(p) == IF p \in Callers THEN "c_ret" ELSE "hr_ret"

gTransport == <<closed, dialled>>
gLoops     == <<loopPc, loopConn>>
gMsgs      == <<msgRead, msgPending, msgSeen>>
gSend      == <<sendObs, sendWrites>>

(***************************************************************************)
(* Connect (websocket_client.go:53-65).  The call is invoked (ConnectCall),*)
(* takes the mutex and decides (ConnectEnter), runs connectWithRetry while *)
(* holding the mutex, and returns, releasing the mutex (ConnectRet).       *)
(***************************************************************************)
ConnectCall(t) ==
    /\ pc[t] = "idle"
    /\ ops < MaxOps
    /\ ops' = ops + 1
    /\ pc' = [pc EXCEPT ![t] = "c_lock"]
    /\ invState' = [invState EXCEPT ![t] = state]
    /\ discReturned' = FALSE
    /\ UNCHANGED <<notWS, maxReconnectAttempts, state, conn, reconnectAttempts,
                   shouldReconnect, ctxDone, mu, gTransport, dialRes, gLoops,
                   connNotes, connSeen, gMsgs, dials, res, notes, gSend>>

ConnectEnter(t) ==
    /\ pc[t] = "c_lock"
    /\ mu = 0
    /\ mu' = t
    /\ IF ConnectRefused(state)
       THEN /\ res' = [res EXCEPT ![t] = "already"]
            /\ pc' = [pc EXCEPT ![t] = "c_ret"]
            /\ UNCHANGED <<state, connNotes, reconnectAttempts>>
       ELSE /\ setState("Connecting")
            /\ reconnectAttempts' = 0
            /\ pc' = [pc EXCEPT ![t] = "cwr"]
            /\ UNCHANGED res
    /\ discReturned' = FALSE
    /\ UNCHANGED <<notWS, maxReconnectAttempts, conn, shouldReconnect, ctxDone,
                   gTransport, dialRes, gLoops, connSeen, gMsgs, ops, invState,
                   dials, notes, gSend>>

ConnectRet(t) ==
    /\ pc[t] = "c_ret"
    /\ mu' = 0
    /\ pc' = [pc EXCEPT ![t] = "idle"]
    /\ invState' = [invState EXCEPT ![t] = "none"]
    /\ dials' = [dials EXCEPT ![t] = 0]
    /\ res' = [res EXCEPT ![t] = "none"]
    /\ notes' = [notes EXCEPT ![t] = 0]
    /\ dialRes' = [dialRes EXCEPT ![t] = "none"]
    /\ UNCHANGED <<notWS, maxReconnectAttempts, state, conn, reconnectAttempts,
                   shouldReconnect, ctxDone, gTransport, gLoops,
                   connNotes, connSeen, gMsgs, ops, gSend, discReturned>>

(***************************************************************************)
(* connectWithRetry (websocket_client.go:67-92), run by Connect and by     *)
(* handleReconnect with the mutex held.  CwrDial is the loop test and      *)
(* performConnection (94-136), which fails or installs a new connection;   *)
(* CwrAfter is the rest of the loop body.  The time.Sleep between two      *)
(* attempts is the gap between CwrAfter and the next CwrDial.              *)
(***************************************************************************)
CwrDial(p) ==
    /\ pc[p] = "cwr"
    /\ IF reconnectAttempts < maxReconnectAttempts
       THEN /\ \E ok \in BOOLEAN :
                 /\ ok => dialled < MaxDialOk
                 /\ dialRes' = [dialRes EXCEPT ![p] = IF ok THEN "ok" ELSE "fail"]
                 /\ conn' = IF ok THEN dialled + 1 ELSE conn
                 /\ dialled' = IF ok THEN dialled + 1 ELSE dialled
            /\ dials' = [dials EXCEPT ![p] = @ + 1]
            /\ pc' = [pc EXCEPT ![p] = "cwr_after"]
            /\ UNCHANGED res
       ELSE /\ res' = [res EXCEPT ![p] = "err"]
            /\ pc' = [pc EXCEPT ![p] = RetPc(p)]
            /\ UNCHANGED <<dialRes, conn, dialled, dials>>
    /\ UNCHANGED <<notWS, maxReconnectAttempts, state, reconnectAttempts, shouldReconnect,
                   ctxDone, mu, closed, gLoops, connNotes, connSeen, gMsgs, ops,
                   invState, notes, gSend, discReturned>>

CwrAfter(p) ==
    /\ pc[p] = "cwr_after"
    /\ IF dialRes[p] = "fail"
       THEN /\ reconnectAttempts' = reconnectAttempts + 1
            /\ IF reconnectAttempts + 1 >= maxReconnectAttempts
               THEN /\ setState("Error")
                    /\ notes' = [notes EXCEPT ![p] = @ + 1]
                    /\ res' = [res EXCEPT ![p] = "err"]
                    /\ pc' = [pc EXCEPT ![p] = RetPc(p)]
               ELSE /\ pc' = [pc EXCEPT ![p] = "cwr"]
                    /\ UNCHANGED <<state, connNotes, notes, res>>
            /\ UNCHANGED loopPc
       ELSE /\ setState("Connected")
            /\ reconnectAttempts' = 0
            /\ loopPc' = [loopPc EXCEPT ![conn] = "select"]
            /\ res' = [res EXCEPT ![p] = "ok"]
            /\ pc' = [pc EXCEPT ![p] = RetPc(p)]
            /\ UNCHANGED notes
    /\ UNCHANGED <<notWS, maxReconnectAttempts, conn, shouldReconnect, ctxDone, mu,
                   gTransport, dialRes, loopConn, connSeen, gMsgs, ops, invState,
                   dials, gSend, discReturned>>

(***************************************************************************)
(* handleReconnect (websocket_client.go:172-184), the goroutine spawned by *)
(* messageLoop k.                                                          *)
(***************************************************************************)
\* A variant with the state test inverted.
HrEnterInverted(k) ==
    /\ pc[Recon(k)] = "hr_lock"
    /\ mu = 0
    /\ IF state = "Reconnecting"
       THEN /\ pc' = [pc EXCEPT ![Recon(k)] = "done"]
            /\ UNCHANGED mu
       ELSE /\ pc' = [pc EXCEPT ![Recon(k)] = "cwr"]
            /\ mu' = Recon(k)
    /\ UNCHANGED <<notWS, maxReconnectAttempts, state, conn, reconnectAttempts,
                   shouldReconnect, ctxDone, gTransport, dialRes, gLoops,
                   connNotes, connSeen, gMsgs, ops, invState, dials, res, notes,
                   gSend, discReturned>>

HrEnter(k) ==
    /\ pc[Recon(k)] = "hr_lock"
    /\ mu = 0
    /\ IF state # "Reconnecting"
       THEN /\ pc' = [pc EXCEPT ![Recon(k)] = "done"]
            /\ UNCHANGED mu
       ELSE /\ pc' = [pc EXCEPT ![Recon(k)] = "cwr"]
            /\ mu' = Recon(k)
    /\ UNCHANGED <<notWS, maxReconnectAttempts, state, conn, reconnectAttempts,
                   shouldReconnect, ctxDone, gTransport, dialRes, gLoops,
                   connNotes, connSeen, gMsgs, ops, invState, dials, res, notes,
                   gSend, discReturned>>

HrRet(k) ==
    /\ pc[Recon(k)] = "hr_ret"
    /\ IF res[Recon(k)] = "err"
       THEN /\ setState("Error")
            /\ notes' = [notes EXCEPT ![Recon(k)] = @ + 1]
       ELSE UNCHANGED <<state, connNotes, notes>>
    /\ mu' = 0
    /\ pc' = [pc EXCEPT ![Recon(k)] = "done"]
    /\ dials' = [dials EXCEPT ![Recon(k)] = 0]
    /\ dialRes' = [dialRes EXCEPT ![Recon(k)] = "none"]
    /\ UNCHANGED <<notWS, maxReconnectAttempts, conn, reconnectAttempts, shouldReconnect,
                   ctxDone, gTransport, gLoops, connSeen, gMsgs, ops,
                   invState, res, gSend, discReturned>>

(***************************************************************************)
(* SendMessage (websocket_client.go:192-205).  SendMessage takes the mutex *)
(* and reads the state; SendWrite is conn.WriteJSON and the return.  A     *)
(* write on a closed connection fails; a write on an open one succeeds or  *)
(* fails; wsc.conn = nil at the write is a nil dereference.                *)
(***************************************************************************)
SendMessage(t) ==
    /\ pc[t] = "idle"
    /\ ops < MaxOps
    /\ mu = 0
    /\ ops' = ops + 1
    /\ sendObs' = [sendObs EXCEPT ![t] = state]
    /\ IF SendAllowed(state)
       THEN /\ mu' = t
            /\ pc' = [pc EXCEPT ![t] = "s_write"]
            /\ res' = [res EXCEPT ![t] = "none"]
       ELSE /\ mu' = t
            /\ pc' = [pc EXCEPT ![t] = "s_ret"]
            /\ res' = [res EXCEPT ![t] = "not connected"]
    /\ UNCHANGED <<notWS, maxReconnectAttempts, state, conn, reconnectAttempts,
                   shouldReconnect, ctxDone, gTransport, dialRes, gLoops,
                   connNotes, connSeen, gMsgs, invState, dials, notes,
                   sendWrites, discReturned>>

SendWrite(t) ==
    /\ pc[t] = "s_write"
    /\ IF conn = 0
       THEN /\ pc' = [pc EXCEPT ![t] = "panic"]
            /\ UNCHANGED <<sendWrites, res>>
       ELSE /\ sendWrites' = [sendWrites EXCEPT ![t] = @ + 1]
            /\ \E r \in (IF conn \in closed THEN {"write error"}
                                            ELSE {"nil", "write error"}) :
                 res' = [res EXCEPT ![t] = r]
            /\ pc' = [pc EXCEPT ![t] = "s_ret"]
    /\ UNCHANGED <<notWS, maxReconnectAttempts, state, conn, reconnectAttempts,
                   shouldReconnect, ctxDone, mu, gTransport, dialRes, gLoops,
                   connNotes, connSeen, gMsgs, ops, invState, dials, notes,
                   sendObs, discReturned>>

SendRet(t) ==
    /\ pc[t] = "s_ret"
    /\ mu' = 0
    /\ pc' = [pc EXCEPT ![t] = "idle"]
    /\ sendObs' = [sendObs EXCEPT ![t] = "none"]
    /\ sendWrites' = [sendWrites EXCEPT ![t] = 0]
    /\ res' = [res EXCEPT ![t] = "none"]
    /\ UNCHANGED <<notWS, maxReconnectAttempts, state, conn, reconnectAttempts,
                   shouldReconnect, ctxDone, gTransport, dialRes, gLoops,
                   connNotes, connSeen, gMsgs, ops, invState, dials, notes,
                   discReturned>>

(***************************************************************************)
(* Disconnect (websocket_client.go:207-220): the whole body runs under the *)
(* mutex and reads no field that messageLoop writes before it overwrites   *)
(* it, so it is one step.                                                  *)
(***************************************************************************)
Disconnect(t) ==
    /\ pc[t] = "idle"
    /\ ops < MaxOps
    /\ mu = 0
    /\ ops' = ops + 1
    /\ shouldReconnect' = FALSE
    /\ ctxDone' = TRUE
    /\ closed' = IF conn # 0 THEN closed \cup {conn} ELSE closed
    /\ conn' = 0
    /\ setState("Disconnected")
    /\ discReturned' = TRUE
    /\ UNCHANGED <<notWS, maxReconnectAttempts, reconnectAttempts, mu, dialled, pc,
                   dialRes, gLoops, connSeen, gMsgs, invState, dials, res, notes,
                   gSend>>

(***************************************************************************)
(* messageLoop (websocket_client.go:138-170), the goroutine started by the *)
(* k-th successful dial.  It takes no mutex, so each access is a step:     *)
(*   LoopSelect    the select on ctx.Done()                                *)
(*   LoopRead      evaluates wsc.conn and enters ReadJSON on it            *)
(*   LoopRecv      ReadJSON returns a message (handleMessage, 186-190) or  *)
(*                 an error                                                *)
(*   LoopFailed    the test shouldReconnect && state == Connected          *)
(*   LoopReconnect setState(Reconnecting); go handleReconnect()            *)
(*   LoopDefer     the deferred close of whatever wsc.conn is now          *)
(***************************************************************************)
LoopSelect(k) ==
    /\ loopPc[k] = "select"
    /\ loopPc' = [loopPc EXCEPT ![k] = IF ctxDone THEN "defer" ELSE "default"]
    /\ UNCHANGED <<notWS, maxReconnectAttempts, state, conn, reconnectAttempts,
                   shouldReconnect, ctxDone, mu, gTransport, pc, dialRes,
                   loopConn, connNotes, connSeen, gMsgs, ops, invState, dials,
                   res, notes, gSend, discReturned>>

LoopRead(k) ==
    /\ loopPc[k] = "default"
    /\ IF conn = 0
       THEN /\ loopPc' = [loopPc EXCEPT ![k] = "panic"]
            /\ UNCHANGED loopConn
       ELSE /\ loopPc' = [loopPc EXCEPT ![k] = "reading"]
            /\ loopConn' = [loopConn EXCEPT ![k] = conn]
    /\ UNCHANGED <<notWS, maxReconnectAttempts, state, conn, reconnectAttempts,
                   shouldReconnect, ctxDone, mu, gTransport, pc, dialRes,
                   connNotes, connSeen, gMsgs, ops, invState, dials, res, notes,
                   gSend, discReturned>>

LoopRecv(k) ==
    /\ loopPc[k] = "reading"
    /\ \/ /\ loopConn[k] \notin closed
          /\ msgRead < MaxMsgs
          /\ msgRead' = msgRead + 1
          /\ msgPending' = msgPending \cup {msgRead + 1}
          /\ loopPc' = [loopPc EXCEPT ![k] = "select"]
       \/ /\ loopPc' = [loopPc EXCEPT ![k] = "failed"]
          /\ UNCHANGED <<msgRead, msgPending>>
    /\ loopConn' = [loopConn EXCEPT ![k] = 0]
    /\ UNCHANGED <<notWS, maxReconnectAttempts, state, conn, reconnectAttempts,
                   shouldReconnect, ctxDone, mu, gTransport, pc, dialRes,
                   connNotes, connSeen, msgSeen, ops, invState, dials,
                   res, notes, gSend, discReturned>>

LoopFailed(k) ==
    /\ loopPc[k] = "failed"
    /\ loopPc' = [loopPc EXCEPT ![k] =
                    IF shouldReconnect /\ state = "Connected"
                    THEN "reconnect" ELSE "defer"]
    /\ UNCHANGED <<notWS, maxReconnectAttempts, state, conn, reconnectAttempts,
                   shouldReconnect, ctxDone, mu, gTransport, pc, dialRes,
                   loopConn, connNotes, connSeen, gMsgs, ops, invState, dials,
                   res, notes, gSend, discReturned>>

LoopReconnect(k) ==
    /\ loopPc[k] = "reconnect"
    /\ setState("Reconnecting")
    /\ pc' = [pc EXCEPT ![Recon(k)] = "hr_lock"]
    /\ loopPc' = [loopPc EXCEPT ![k] = "defer"]
    /\ UNCHANGED <<notWS, maxReconnectAttempts, conn, reconnectAttempts,
                   shouldReconnect, ctxDone, mu, gTransport, dialRes, loopConn,
                   connSeen, gMsgs, ops, invState, dials, res, notes, gSend,
                   discReturned>>

LoopDefer(k) ==
    /\ loopPc[k] = "defer"
    /\ closed' = IF conn # 0 THEN closed \cup {conn} ELSE closed
    /\ loopPc' = [loopPc EXCEPT ![k] = "done"]
    /\ UNCHANGED <<notWS, maxReconnectAttempts, state, conn, reconnectAttempts,
                   shouldReconnect, ctxDone, mu, dialled, pc, dialRes, loopConn,
                   connNotes, connSeen, gMsgs, ops, invState, dials, res, notes,
                   gSend, discReturned>>

(***************************************************************************)
(* The handler goroutines: `go handler(state)` of setState (226) and       *)
(* `go handler(message)` of handleMessage (188).  Each spawned goroutine   *)
(* runs at a moment of the scheduler's choosing.                           *)
(***************************************************************************)
Range(f) == {f[i] : i \in DOMAIN f}

ConnectionHandlerRun(i) ==
    /\ i \in DOMAIN connNotes
    /\ i \notin Range(connSeen)
    /\ connSeen' = Append(connSeen, i)
    /\ UNCHANGED <<notWS, maxReconnectAttempts, state, conn, reconnectAttempts,
                   shouldReconnect, ctxDone, mu, gTransport, pc, dialRes, gLoops,
                   connNotes, gMsgs, ops, invState, dials, res, notes, gSend,
                   discReturned>>

MessageHandlerRun(m) ==
    /\ m \in msgPending
    /\ msgPending' = msgPending \ {m}
    /\ msgSeen' = Append(msgSeen, m)
    /\ UNCHANGED <<notWS, maxReconnectAttempts, state, conn, reconnectAttempts,
                   shouldReconnect, ctxDone, mu, gTransport, pc, dialRes, gLoops,
                   connNotes, connSeen, msgRead, ops, invState, dials, res, notes,
                   gSend, discReturned>>

(***************************************************************************)
(*                             AudioProcessor                              *)
(***************************************************************************)
SegmentIDs      == {"A", "B"}
SentenceNumbers == {1, 2}
Payloads        == 1..MaxAdds
PlaybackStates  == {"Idle", "Playing", "Paused", "Queued", "Error"}

\* NewAudioProcessor (audio_processor.go:48-59)
NewAudioProcessor ==
    /\ audioQueue = <<>>
    /\ playbackState = "Idle"
    /\ currentSegment = 0
    /\ autoPlayback = TRUE
    /\ playSpawned = 0
    /\ cyclePc = [c \in Payloads |-> "none"]
    /\ addLog = <<>>
    /\ popLog = <<>>
    /\ ctl = 0
    /\ cleared = {}

\* The de-duplication test of AddToQueue (audio_processor.go:134-139)
IsDuplicate(queue, segment) ==
    \E i \in DOMAIN queue :
        /\ queue[i].SegmentID = segment.SegmentID
        /\ queue[i].SentenceNumber = segment.SentenceNumber

(***************************************************************************)
(* AddToQueue (audio_processor.go:129-147), one step under ap.mu.          *)
(* AudioData is the payload; `valid` says whether it is well-formed        *)
(* base64.                                                                 *)
(***************************************************************************)
AddToQueueLocked(id, num, valid) ==
    LET segment == [SegmentID |-> id, SentenceNumber |-> num,
                    AudioData |-> Len(addLog) + 1, valid |-> valid]
    IN IF IsDuplicate(audioQueue, segment)
       THEN /\ addLog' = Append(addLog, segment @@ [accepted |-> FALSE])
            /\ UNCHANGED <<audioQueue, playSpawned>>
       ELSE /\ audioQueue' = Append(audioQueue, segment)
            /\ addLog' = Append(addLog, segment @@ [accepted |-> TRUE])
            /\ playSpawned' = IF autoPlayback /\ playbackState # "Playing"
                              THEN playSpawned + 1 ELSE playSpawned

AddToQueue(id, num, valid) ==
    /\ Len(addLog) < MaxAdds
    /\ AddToQueueLocked(id, num, valid)
    /\ UNCHANGED <<notAP, cleared, playbackState, currentSegment, autoPlayback, cyclePc,
                   popLog, ctl>>

(***************************************************************************)
(* playNextSegment (audio_processor.go:149-254).                           *)
(*   PlayNext      150-159: under ap.mu, return or pop the head            *)
(*   PlayDecode    163-172: base64 decoding, the error path under ap.mu    *)
(*   PlayOpen      187-217: OpenDefaultStream                              *)
(*   PlayStart     220-228: stream.Start                                   *)
(*   PlayWait      233-242: the wait for done or the timeout, stream.Stop  *)
(*   PlayFinish    244-253: under ap.mu, clear the marker, spawn the next  *)
(***************************************************************************)
PlayNext ==
    /\ playSpawned > 0
    /\ IF Len(audioQueue) = 0 \/ playbackState = "Playing"
       THEN /\ playSpawned' = playSpawned - 1
            /\ UNCHANGED <<audioQueue, currentSegment, playbackState, cyclePc,
                           popLog>>
       ELSE /\ playSpawned' = playSpawned - 1
            /\ audioQueue' = Tail(audioQueue)
            /\ currentSegment' = Head(audioQueue).AudioData
            /\ playbackState' = "Playing"
            /\ cyclePc' = [cyclePc EXCEPT ![Head(audioQueue).AudioData] = "decode"]
            /\ popLog' = Append(popLog, Head(audioQueue).AudioData)
    /\ UNCHANGED <<notAP, cleared, autoPlayback, addLog, ctl>>

\* A variant of the error path that does not start the next cycle.
PlayFailedNoRetry(c) ==
    /\ playbackState' = "Error"
    /\ currentSegment' = 0
    /\ playSpawned' = playSpawned
    /\ cyclePc' = [cyclePc EXCEPT ![c] = "done"]

\* The error path of a play cycle (166-171, 211-216, 222-227)
PlayFailed(c) ==
    /\ playbackState' = "Error"
    /\ currentSegment' = 0
    /\ playSpawned' = playSpawned + 1
    /\ cyclePc' = [cyclePc EXCEPT ![c] = "done"]

PlayDecode(c) ==
    /\ cyclePc[c] = "decode"
    /\ IF addLog[c].valid
       THEN /\ cyclePc' = [cyclePc EXCEPT ![c] = "open"]
            /\ UNCHANGED <<playbackState, currentSegment, playSpawned>>
       ELSE PlayFailed(c)
    /\ UNCHANGED <<notAP, cleared, audioQueue, autoPlayback, addLog, popLog, ctl>>

PlayOpen(c) ==
    /\ cyclePc[c] = "open"
    /\ \/ /\ cyclePc' = [cyclePc EXCEPT ![c] = "start"]
          /\ UNCHANGED <<playbackState, currentSegment, playSpawned>>
       \/ PlayFailed(c)
    /\ UNCHANGED <<notAP, cleared, audioQueue, autoPlayback, addLog, popLog, ctl>>

PlayStart(c) ==
    /\ cyclePc[c] = "start"
    /\ \/ /\ cyclePc' = [cyclePc EXCEPT ![c] = "render"]
          /\ UNCHANGED <<playbackState, currentSegment, playSpawned>>
       \/ PlayFailed(c)
    /\ UNCHANGED <<notAP, cleared, audioQueue, autoPlayback, addLog, popLog, ctl>>

PlayWait(c) ==
    /\ cyclePc[c] = "render"
    /\ cyclePc' = [cyclePc EXCEPT ![c] = "finish"]
    /\ UNCHANGED <<notAP, cleared, audioQueue, playbackState, currentSegment,
                   autoPlayback, playSpawned, addLog, popLog, ctl>>

PlayFinish(c) ==
    /\ cyclePc[c] = "finish"
    /\ currentSegment' = 0
    /\ playbackState' = IF Len(audioQueue) = 0 THEN "Idle" ELSE "Queued"
    /\ playSpawned' = playSpawned + 1
    /\ cyclePc' = [cyclePc EXCEPT ![c] = "done"]
    /\ UNCHANGED <<notAP, cleared, audioQueue, autoPlayback, addLog, popLog, ctl>>

\* A variant of ClearQueue that leaves the pending segments in the queue.
ClearQueueKeepPending ==
    /\ ctl < MaxCtl
    /\ ctl' = ctl + 1
    /\ currentSegment' = 0
    /\ playbackState' = "Idle"
    /\ cleared' = cleared \cup {audioQueue[i].AudioData : i \in DOMAIN audioQueue}
    /\ UNCHANGED <<notAP, audioQueue, autoPlayback, playSpawned, cyclePc, addLog, popLog>>

\* ClearQueue (audio_processor.go:256-264)
ClearQueue ==
    /\ ctl < MaxCtl
    /\ ctl' = ctl + 1
    /\ audioQueue' = <<>>
    /\ currentSegment' = 0
    /\ playbackState' = "Idle"
    /\ cleared' = cleared \cup {audioQueue[i].AudioData : i \in DOMAIN audioQueue}
    /\ UNCHANGED <<notAP, autoPlayback, playSpawned, cyclePc, addLog, popLog>>

\* ProcessQueue (audio_processor.go:391-410): the caller's callback takes
\* the first pending segment, or all of them
ProcessQueue(consumeAll) ==
    /\ ctl < MaxCtl
    /\ ctl' = ctl + 1
    /\ audioQueue' = IF consumeAll \/ audioQueue = <<>> THEN <<>> ELSE Tail(audioQueue)
    /\ UNCHANGED <<notAP, cleared, playbackState, currentSegment, autoPlayback,
                   playSpawned, cyclePc, addLog, popLog>>

\* PausePlayback (audio_processor.go:266-280)
PausePlayback ==
    /\ ctl < MaxCtl
    /\ ctl' = ctl + 1
    /\ playbackState' = IF playbackState # "Playing" THEN playbackState
                        ELSE "Paused"
    /\ UNCHANGED <<notAP, cleared, audioQueue, currentSegment, autoPlayback, playSpawned,
                   cyclePc, addLog, popLog>>

\* ResumePlayback (audio_processor.go:282-295)
ResumePlayback ==
    /\ ctl < MaxCtl
    /\ ctl' = ctl + 1
    /\ IF playbackState # "Paused"
       THEN UNCHANGED <<playbackState, playSpawned>>
       ELSE /\ playbackState' = "Playing"
            /\ playSpawned' = playSpawned + 1
    /\ UNCHANGED <<notAP, cleared, audioQueue, currentSegment, autoPlayback, cyclePc,
                   addLog, popLog>>

\* StopPlayback (audio_processor.go:297-310)
StopPlayback ==
    /\ ctl < MaxCtl
    /\ ctl' = ctl + 1
    /\ IF playbackState = "Idle"
       THEN UNCHANGED <<currentSegment, playbackState>>
       ELSE /\ currentSegment' = 0
            /\ playbackState' = "Idle"
    /\ UNCHANGED <<notAP, cleared, audioQueue, autoPlayback, playSpawned, cyclePc, addLog,
                   popLog>>

(***************************************************************************)
(*                         The handler lists                               *)
(* AddMessageHandler, AddConnectionHandler, AddErrorHandler                *)
(* (websocket_client.go:238-287) and AddAudioDataHandler                   *)
(* (audio_processor.go:325-340) are the same code over four lists.  A      *)
(* registration is one AddXHandler call; registration r of a kind is the   *)
(* r-th call for that kind.                                                *)
(***************************************************************************)
HandlerKinds == {"message", "connection", "error", "audioData"}
Registrations == 1..MaxHandlers

\* The variables the returned closure compares by address: `handler`, the
\* parameter of registration r's AddXHandler call, and `h`, the variable of
\* the closure's range loop.  Distinct variables have distinct addresses.
AddrOfHandlerParam(r) == <<"handler", r>>
AddrOfLoopVar == <<"h">>

\* The list with entry i cut out: append(list[:i], list[i+1:]...)
CutAt(list, i) == [j \in 1..(Len(list) - 1) |-> IF j < i THEN list[j] ELSE list[j + 1]]

\* The closure's loop: the first i with &h == &handler is cut out, then break.
RemoveHandler(list, r) ==
    LET hits == {i \in DOMAIN list : AddrOfLoopVar = AddrOfHandlerParam(r)}
    IN  IF hits = {} THEN list
        ELSE CutAt(list, CHOOSE i \in hits : \A j \in hits : i <= j)

NewHandlerLists ==
    /\ handlerList = [k \in HandlerKinds |-> <<>>]
    /\ regCount = [k \in HandlerKinds |-> 0]
    /\ deregistered = [k \in HandlerKinds |-> {}]
    /\ lateInvoked = [k \in HandlerKinds |-> {}]
    /\ deregObs = [kind |-> "none", reg |-> 0, before |-> <<>>, after |-> <<>>]

\* AddXHandler: append under the mutex, return the closure.
AddHandler(k) ==
    /\ regCount[k] < MaxHandlers
    /\ regCount' = [regCount EXCEPT ![k] = @ + 1]
    /\ handlerList' = [handlerList EXCEPT ![k] = Append(@, regCount[k] + 1)]
    /\ UNCHANGED <<notH, deregistered, lateInvoked, deregObs>>

\* A call of the closure AddXHandler returned for registration r.
Deregister(k, r) ==
    /\ r <= regCount[k]
    /\ r \notin deregistered[k]
    /\ handlerList' = [handlerList EXCEPT ![k] = RemoveHandler(@, r)]
    /\ deregistered' = [deregistered EXCEPT ![k] = @ \cup {r}]
    /\ deregObs' = [kind |-> k, reg |-> r, before |-> handlerList[k],
                    after |-> RemoveHandler(handlerList[k], r)]
    /\ UNCHANGED <<notH, regCount, lateInvoked>>

\* One event of kind k: `go handler(x)` for every entry of the list
\* (handleMessage, setState, handleError, the capture callback).
Dispatch(k) ==
    /\ handlerList[k] # <<>>
    /\ lateInvoked' = [lateInvoked EXCEPT
                         ![k] = @ \cup ({handlerList[k][i] : i \in DOMAIN handlerList[k]}
                                        \cap deregistered[k])]
    /\ UNCHANGED <<notH, handlerList, regCount, deregistered, deregObs>>

(***************************************************************************)
(*        EncodeAudioToBase64 / DecodeAudioFromBase64 (part_004:152-173)   *)
(* A float32 sample is its 32-bit pattern (math.Float32bits and            *)
(* math.Float32frombits move the bits unchanged), written as the pair      *)
(* <<high 16 bits, low 16 bits>>; a byte is 0..255; the encoded string is  *)
(* a sequence of one-character strings.                                    *)
(***************************************************************************)
\* Bit patterns of samples: +0 (00000000), the smallest subnormal
\* (00000001), 1.0 (3F800000), -0 (80000000), a quiet NaN (7FC00000), a
\* signalling NaN (7FA00001), all ones, and 01020304.
SignallingNaN == <<32672, 1>>
DistinctBytes == <<258, 772>>
SamplePatterns == {<<0, 0>>, <<0, 1>>, <<16256, 0>>, <<32768, 0>>, <<32704, 0>>,
                   SignallingNaN, <<65535, 65535>>, DistinctBytes}
SampleSeqs == UNION {[1..n -> SamplePatterns] : n \in 0..MaxSamples}

\* binary.Write(buf, binary.LittleEndian, bits): least significant byte first
LittleEndianPutUint32(bits) ==
    <<bits[2] % 256, bits[2] \div 256, bits[1] % 256, bits[1] \div 256>>

\* A variant that reads the most significant byte first.
BigEndianUint32(b) == <<b[2] + 256 * b[1], b[4] + 256 * b[3]>>
\* binary.LittleEndian.Uint32(b)
LittleEndianUint32(b) == <<b[3] + 256 * b[4], b[1] + 256 * b[2]>>

RECURSIVE SampleBytes(_)
\* the buffer EncodeAudioToBase64 fills
SampleBytes(samples) ==
    IF samples = <<>> THEN <<>>
    ELSE LittleEndianPutUint32(Head(samples)) \o SampleBytes(Tail(samples))

\* base64.StdEncoding: the alphabet of RFC 4648 and the padding character
StdAlphabet ==
    <<"A", "B", "C", "D", "E", "F", "G", "H", "I", "J", "K", "L", "M", "N", "O", "P",
      "Q", "R", "S", "T", "U", "V", "W", "X", "Y", "Z", "a", "b", "c", "d", "e", "f",
      "g", "h", "i", "j", "k", "l", "m", "n", "o", "p", "q", "r", "s", "t", "u", "v",
      "w", "x", "y", "z", "0", "1", "2", "3", "4", "5", "6", "7", "8", "9", "+", "/">>
StdPadding == "="
EncChar(v) == StdAlphabet[v + 1]
IsStdChar(c) == \E i \in DOMAIN StdAlphabet : StdAlphabet[i] = c
DecChar(c) == (CHOOSE i \in DOMAIN StdAlphabet : StdAlphabet[i] = c) - 1

RECURSIVE EncodeToString(_)
\* base64.StdEncoding.EncodeToString
EncodeToString(b) ==
    IF Len(b) = 0 THEN <<>>
    ELSE IF Len(b) = 1 THEN
        <<EncChar(b[1] \div 4), EncChar((b[1] % 4) * 16), StdPadding, StdPadding>>
    ELSE IF Len(b) = 2 THEN
        <<EncChar(b[1] \div 4), EncChar((b[1] % 4) * 16 + b[2] \div 16),
          EncChar((b[2] % 16) * 4), StdPadding>>
    ELSE
        <<EncChar(b[1] \div 4), EncChar((b[1] % 4) * 16 + b[2] \div 16),
          EncChar((b[2] % 16) * 4 + b[3] \div 64), EncChar(b[3] % 64)>>
        \o EncodeToString(SubSeq(b, 4, Len(b)))

\* base64.StdEncoding.DecodeString fails on a length that is no multiple of
\* 4, on a character outside the alphabet, and on padding anywhere but at
\* the end of the last quantum.
WellFormed(s) ==
    /\ Len(s) % 4 = 0
    /\ \A i \in DOMAIN s :
          \/ IsStdChar(s[i])
          \/ /\ s[i] = StdPadding
             /\ i > Len(s) - 2
             /\ \A j \in (i + 1)..Len(s) : s[j] = StdPadding

RECURSIVE DecodeQuanta(_)
DecodeQuanta(s) ==
    IF Len(s) = 0 THEN <<>>
    ELSE LET v1 == DecChar(s[1])
             v2 == DecChar(s[2])
         IN  IF s[3] = StdPadding THEN <<v1 * 4 + v2 \div 16>>
             ELSE IF s[4] = StdPadding THEN
                 <<v1 * 4 + v2 \div 16, (v2 % 16) * 16 + DecChar(s[3]) \div 4>>
             ELSE
                 <<v1 * 4 + v2 \div 16, (v2 % 16) * 16 + DecChar(s[3]) \div 4,
                   (DecChar(s[3]) % 4) * 64 + DecChar(s[4])>>
                 \o DecodeQuanta(SubSeq(s, 5, Len(s)))

\* EncodeAudioToBase64
EncodeAudioToBase64(samples) == EncodeToString(SampleBytes(samples))

\* DecodeAudioFromBase64: len(data)/4 samples, each from four bytes
DecodeAudioFromBase64(encoded) ==
    IF ~WellFormed(encoded) THEN [err |-> TRUE, samples |-> <<>>]
    ELSE LET data == DecodeQuanta(encoded)
         IN  [err |-> FALSE,
              samples |-> [i \in 1..(Len(data) \div 4) |->
                             LittleEndianUint32(SubSeq(data, (i - 1) * 4 + 1, i * 4))]]

\* No call made yet.
CodecFresh ==
    /\ codecPc = "start"
    /\ codecWire = <<>>
    /\ codecOut = [err |-> FALSE, samples |-> <<>>]

EncodeStep ==
    /\ codecPc = "start"
    /\ codecWire' = EncodeAudioToBase64(codecIn)
    /\ codecPc' = "encoded"
    /\ UNCHANGED <<notCodec, codecIn, codecOut>>

DecodeStep ==
    /\ codecPc = "encoded"
    /\ codecOut' = DecodeAudioFromBase64(codecWire)
    /\ codecPc' = "decoded"
    /\ UNCHANGED <<notCodec, codecIn, codecWire>>

(***************************************************************************)
(*          StreamMicrophoneWithStats (client.go:238-372)                  *)
(* Time is counted in buffer periods: the device takes BufferSize /        *)
(* SampleRate seconds, one tick, to capture one buffer of BufferSize       *)
(* frames.  The capture callback receives the buffer interleaved, that is  *)
(* BufferSize * Channels samples (audio_processor.go:72), and the          *)
(* statistics handler runs in a goroutine of its own for every buffer      *)
(* (audio_processor.go:82-84).  A duration is a number of ticks, a ratio   *)
(* the pair of the two durations it divides.                               *)
(***************************************************************************)
\* NewConversationConfig: MaxHistory: 20 (conversation.go:26)
DefaultMaxHistory == 20
\* NewAudioConfig: Channels: 1 (audio_processor.go:26)
DefaultChannels == 1

\* len(data) of one capture buffer, in units of BufferSize samples
FrameLen(ch) == ch

\* float64(len(data)) / float64(SampleRate) seconds, in ticks
FrameSeconds(len) == len

\* Before the call.
StatsFresh ==
    /\ stPc = "idle"
    /\ clock = 0
    /\ statsStart = 0
    /\ recStart = 0
    /\ captured = 0
    /\ framesPending = <<>>
    /\ voiceActivityDuration = 0
    /\ statsDuration = 0
    /\ voiceActivityRatio = [voice |-> 0, elapsed |-> 1]
    /\ framesHandled = 0

\* The wall clock advances by one buffer period.
Tick ==
    /\ clock < MaxTicks
    /\ clock' = clock + 1
    /\ UNCHANGED <<notStats, channels, stPc, statsStart, recStart, captured,
                   framesPending, voiceActivityDuration, statsDuration,
                   voiceActivityRatio, framesHandled>>

\* stats := &StreamStats{StartTime: time.Now(), ...}; AddAudioDataHandler;
\* StartRecording
StatsStart ==
    /\ stPc = "idle"
    /\ stPc' = "recording"
    /\ statsStart' = clock
    /\ recStart' = clock
    /\ UNCHANGED <<notStats, channels, clock, captured, framesPending,
                   voiceActivityDuration, statsDuration, voiceActivityRatio,
                   framesHandled>>

\* The capture callback: one more buffer is complete, `go h(in)`.
\* above: the buffer's average amplitude exceeds silenceThreshold.
CaptureFrame(above) ==
    /\ stPc = "recording"
    /\ captured < clock - recStart
    /\ captured' = captured + 1
    /\ framesPending' = Append(framesPending, [len |-> FrameLen(channels), above |-> above])
    /\ UNCHANGED <<notStats, channels, clock, stPc, statsStart, recStart,
                   voiceActivityDuration, statsDuration, voiceActivityRatio,
                   framesHandled>>

\* audioHandler, for any one of the buffers handed to a goroutine
StatsHandleFrame(i) ==
    LET f == framesPending[i]
        voice == IF f.above THEN voiceActivityDuration + FrameSeconds(f.len)
                 ELSE voiceActivityDuration
        dur == clock - statsStart
    IN  /\ framesPending' = [j \in 1..(Len(framesPending) - 1) |->
                               IF j < i THEN framesPending[j] ELSE framesPending[j + 1]]
        /\ voiceActivityDuration' = voice
        /\ statsDuration' = dur
        /\ voiceActivityRatio' = IF dur > 0 THEN [voice |-> voice, elapsed |-> dur]
                                 ELSE voiceActivityRatio
        /\ framesHandled' = framesHandled + 1
        /\ UNCHANGED <<notStats, channels, clock, stPc, statsStart, recStart, captured>>

\* time.Sleep(duration) is over: StopRecording
StatsStop ==
    /\ stPc = "recording"
    /\ stPc' = "stopped"
    /\ UNCHANGED <<notStats, channels, clock, statsStart, recStart, captured,
                   framesPending, voiceActivityDuration, statsDuration,
                   voiceActivityRatio, framesHandled>>

\* Finalize statistics
StatsFinalize ==
    LET dur == clock - statsStart
    IN  /\ stPc = "stopped"
        /\ stPc' = "done"
        /\ statsDuration' = dur
        /\ voiceActivityRatio' = IF dur > 0
                                 THEN [voice |-> voiceActivityDuration, elapsed |-> dur]
                                 ELSE voiceActivityRatio
        /\ UNCHANGED <<notStats, channels, clock, statsStart, recStart, captured,
                       framesPending, voiceActivityDuration, framesHandled>>

(***************************************************************************)
(*     Conversation.handleAudioForInterrupt (conversation.go:135-156)      *)
(* The capture callback (audio_processor.go:72-85) overwrites              *)
(* ap.currentAmplitude without the mutex, resetting it to 0 and summing    *)
(* the samples before it divides, and then starts one handler goroutine    *)
(* per buffer.  The handler reads the amplitude under ap.mu, but tests and *)
(* sets c.interruptTimer without c.mu on the above-threshold branch.  An   *)
(* amplitude is "high" (above InterruptThreshold) or "low"; while the      *)
(* callback is summing, a read can return either.  Buffer k's handler, and *)
(* the timer it may create, carry the number k.  The connection is up, so  *)
(* every call of Interrupt sends the interrupt message.                    *)
(***************************************************************************)
Frames == 1..MaxFrames
Levels == {"low", "high"}

NoTimer == [st |-> "none", at |-> 0, lowDone |-> {}]

NewConversation ==
    /\ dbFrames = <<>>
    /\ currentAmplitude = "low"
    /\ hPc = [k \in Frames |-> "none"]
    /\ interruptTimer = 0
    /\ timers = [k \in Frames |-> NoTimer]
    /\ interruptCalls = 0

\* The low buffers whose handler has returned.
LowHandled == {k \in DOMAIN dbFrames : dbFrames[k].level = "low" /\ hPc[k] = "done"}

\* capture callback: ap.currentAmplitude = 0; += for every sample
CaptureBegin ==
    /\ currentAmplitude # "summing"
    /\ Len(dbFrames) < MaxFrames
    \* one buffer per buffer period
    /\ Len(dbFrames) < clock
    /\ dbFrames # <<>> => dbFrames[Len(dbFrames)].at < clock
    /\ currentAmplitude' = "summing"
    /\ UNCHANGED <<notDb, dbFrames, hPc, interruptTimer, timers, interruptCalls>>

\* capture callback: /= len(in); `go h(in)`
CaptureEnd(level) ==
    /\ currentAmplitude = "summing"
    /\ currentAmplitude' = level
    /\ dbFrames' = Append(dbFrames, [level |-> level, at |-> clock])
    /\ hPc' = [hPc EXCEPT ![Len(dbFrames) + 1] = "read"]
    /\ UNCHANGED <<notDb, interruptTimer, timers, interruptCalls>>

\* amplitude := c.audioProcessor.GetCurrentAmplitude(); the comparison
HandlerRead(k) ==
    /\ hPc[k] = "read"
    /\ \E seen \in Levels :
          /\ currentAmplitude \in {seen, "summing"}
          /\ hPc' = [hPc EXCEPT ![k] = IF seen = "high" THEN "check" ELSE "cancel"]
    /\ UNCHANGED <<notDb, dbFrames, currentAmplitude, interruptTimer, timers,
                   interruptCalls>>

\* if c.interruptTimer == nil
HandlerCheck(k) ==
    /\ hPc[k] = "check"
    /\ hPc' = [hPc EXCEPT ![k] = IF interruptTimer = 0 THEN "arm" ELSE "done"]
    /\ UNCHANGED <<notDb, dbFrames, currentAmplitude, interruptTimer, timers,
                   interruptCalls>>

\* c.interruptTimer = time.AfterFunc(500*time.Millisecond, ...)
HandlerArm(k) ==
    /\ hPc[k] = "arm"
    /\ timers' = [timers EXCEPT ![k] = [st |-> "armed", at |-> clock, lowDone |-> {}]]
    /\ interruptTimer' = k
    /\ hPc' = [hPc EXCEPT ![k] = "done"]
    /\ UNCHANGED <<notDb, dbFrames, currentAmplitude, interruptCalls>>

\* else branch: under c.mu, stop the timer c.interruptTimer points to
HandlerCancel(k) ==
    /\ hPc[k] = "cancel"
    /\ IF interruptTimer # 0
       THEN /\ timers' = [timers EXCEPT ![interruptTimer].st =
                              IF @ = "armed" THEN "stopped" ELSE @]
            /\ interruptTimer' = 0
       ELSE UNCHANGED <<timers, interruptTimer>>
    /\ hPc' = [hPc EXCEPT ![k] = "done"]
    /\ UNCHANGED <<notDb, dbFrames, currentAmplitude, interruptCalls>>

\* The timer's function starts once the window has passed: c.Interrupt()
TimerFire(k) ==
    /\ timers[k].st = "armed"
    /\ clock >= timers[k].at + DebounceTicks
    /\ timers' = [timers EXCEPT ![k].st = "running", ![k].lowDone = LowHandled]
    /\ interruptCalls' = interruptCalls + 1
    /\ UNCHANGED <<notDb, dbFrames, currentAmplitude, hPc, interruptTimer>>

\* The timer's function ends: under c.mu, c.interruptTimer = nil
TimerDone(k) ==
    /\ timers[k].st = "running"
    /\ timers' = [timers EXCEPT ![k].st = "done"]
    /\ interruptTimer' = 0
    /\ UNCHANGED <<notDb, dbFrames, currentAmplitude, hPc, interruptCalls>>

(***************************************************************************)
(*        Conversation: the turn history (conversation.go:158-171,         *)
(*        216-226, 255-283, 349-365)                                       *)
(* Every operation here runs under c.mu.  A turn is a role and a content;  *)
(* the n-th turn created in a behaviour has content n, and 0 stands for    *)
(* the empty string.                                                       *)
(***************************************************************************)
Roles == {"user", "assistant"}

\* s[len(s)-n:] for len(s) > n, else s
LastN(s, n) == IF Len(s) > n THEN SubSeq(s, Len(s) - n + 1, Len(s)) ELSE s

\* A variant that drops the newest turns instead of the oldest.
addToHistoryKeepOldest(h, role, content, max) ==
    IF content = 0 THEN h
    ELSE LET a == Append(h, [role |-> role, content |-> content])
         IN  IF Len(a) > max THEN SubSeq(a, 1, max) ELSE a

\* addToHistory: the history after the call
addToHistory(h, role, content, max) ==
    IF content = 0 THEN h
    ELSE LastN(Append(h, [role |-> role, content |-> content]), max)

\* The turns a history file holds: n turns, created in that order.
Imported(n) == [i \in 1..n |-> [role |-> IF i % 2 = 1 THEN "user" ELSE "assistant",
                                content |-> turnCount + i]]

HistoryFresh ==
    /\ history = <<>>
    /\ turnCount = 0
    /\ allCommitted = <<>>
    /\ sinceImport = <<>>
    /\ maxRaised = FALSE
    /\ maxSets = 0

\* A commit of one turn by role, with content c (0: the empty string).
Commit(role, c) ==
    /\ history' = addToHistory(history, role, c, maxHistory)
    /\ IF c = 0
       THEN UNCHANGED <<turnCount, allCommitted, sinceImport>>
       ELSE /\ turnCount' = c
            /\ allCommitted' = Append(allCommitted, [role |-> role, content |-> c])
            /\ sinceImport' = Append(sinceImport, [role |-> role, content |-> c])
    /\ UNCHANGED <<notHist, maxHistory, maxRaised, maxSets>>

\* handleIncomingMessage, "transcription" with is_final: the accumulated
\* text, which may be empty, becomes a user turn
FinalTranscription(empty) ==
    /\ turnCount < MaxTurns
    /\ Commit("user", IF empty THEN 0 ELSE turnCount + 1)

\* handleIncomingMessage, "response"
ResponseMessage(empty) ==
    /\ turnCount < MaxTurns
    /\ Commit("assistant", IF empty THEN 0 ELSE turnCount + 1)

\* SendText with a non-empty text (an empty one is refused with an error)
SendText ==
    /\ turnCount < MaxTurns
    /\ Commit("user", turnCount + 1)

\* ImportHistory of a file with n turns
ImportHistory(n) ==
    /\ turnCount + n <= MaxTurns
    /\ history' = LastN(Imported(n), maxHistory)
    /\ turnCount' = turnCount + n
    /\ allCommitted' = allCommitted \o Imported(n)
    /\ sinceImport' = Imported(n)
    /\ maxRaised' = FALSE
    /\ UNCHANGED <<notHist, maxHistory, maxSets>>

\* SetMaxHistory
SetMaxHistory(max) ==
    LET m == IF max <= 0 THEN 1 ELSE max
    IN  /\ maxSets < MaxSets
        /\ maxSets' = maxSets + 1
        /\ maxHistory' = m
        /\ history' = LastN(history, m)
        /\ maxRaised' = (maxRaised \/ m > maxHistory)
        /\ UNCHANGED <<notHist, turnCount, allCommitted, sinceImport>>

(***************************************************************************)
(*              TokenManager (token_manager.go:11-96)                      *)
(* Instants and durations are counted in half seconds, so that a           *)
(* refreshBuffer of 0.5 s or 1.5 s can be written.  One goroutine calls    *)
(* GetToken and Clear.  The token endpoint answers a refresh with an error *)
(* or with a token and the expiry instant it chooses.                      *)
(***************************************************************************)
\* NewVocalsConfig: TokenRefreshBuffer: 60.0 (config.go:32), in half seconds
DefaultTokenRefreshBuffer == 120

\* time.Duration(-tm.refreshBuffer) * time.Second: the conversion of the
\* float64 to an integer drops the fraction of a second
BufferDuration(rb) == (rb \div 2) * 2

NoReturn == [err |-> TRUE, cached |-> FALSE, at |-> 0, expiresAt |-> 0]

NewTokenManager ==
    /\ tmToken = 0
    /\ tmExpiresAt = 0
    /\ tmNow = 0
    /\ tmIssued = 0
    /\ tmReturned = NoReturn

\* The wall clock advances by half a second.
TokenTick ==
    /\ tmNow < MaxNow
    /\ tmNow' = tmNow + 1
    /\ UNCHANGED <<notTok, refreshBuffer, tmToken, tmExpiresAt, tmIssued, tmReturned>>

\* GetToken answered from the cache (token_manager.go:28-31)
GetTokenCached ==
    /\ tmToken # 0
    /\ tmNow < tmExpiresAt - BufferDuration(refreshBuffer)
    /\ tmReturned' = [err |-> FALSE, cached |-> TRUE, at |-> tmNow,
                      expiresAt |-> tmExpiresAt]
    /\ UNCHANGED <<notTok, refreshBuffer, tmToken, tmExpiresAt, tmNow, tmIssued>>

\* GetToken with a refresh (token_manager.go:33, 36-83); ok: the endpoint
\* answered 200 with a token and a number as expiresAt, the token living
\* ttl half seconds from now
GetTokenRefresh(ok, ttl) ==
    /\ ~(tmToken # 0 /\ tmNow < tmExpiresAt - BufferDuration(refreshBuffer))
    /\ tmIssued < MaxIssued
    /\ tmIssued' = tmIssued + 1
    /\ IF ok
       THEN /\ tmToken' = tmIssued + 1
            /\ tmExpiresAt' = tmNow + ttl
            /\ tmReturned' = [err |-> FALSE, cached |-> FALSE, at |-> tmNow,
                              expiresAt |-> tmNow + ttl]
       ELSE /\ tmReturned' = [NoReturn EXCEPT !.at = tmNow]
            /\ UNCHANGED <<tmToken, tmExpiresAt>>
    /\ UNCHANGED <<notTok, refreshBuffer, tmNow>>

\* TokenManager.Clear
TokenClear ==
    /\ tmToken # 0
    /\ tmToken' = 0
    /\ tmExpiresAt' = 0
    /\ UNCHANGED <<notTok, refreshBuffer, tmNow, tmIssued, tmReturned>>

(***************************************************************************)
(*              VocalsClient: the internal message handler                 *)
(*                                                                         *)
(* setupInternalHandlers (client.go:74-102) registers one message handler  *)
(* with the WebSocket client.  messageLoop hands every message ReadJSON    *)
(* returns to `go handler(message)`; the handler turns a tts_audio message *)
(* into a TTSAudioSegment and calls AddToQueue.  A JSON value of the       *)
(* message's data is absent, a number or a string.                         *)
(***************************************************************************)
JAbsent    == [kind |-> "absent", str |-> "", num |-> 0]
JNumber(n) == [kind |-> "number", str |-> "", num |-> n]
JString(s) == [kind |-> "string", str |-> s, num |-> 0]

\* getString (client.go:528-536): "" for a missing key or a non-string
getString(data, key) == IF data[key].kind = "string" THEN data[key].str ELSE ""

\* getInt (client.go:538-549): 0 for a missing key or a non-number
getInt(data, key) == IF data[key].kind = "number" THEN data[key].num ELSE 0

SegmentIdValues == {JAbsent, JNumber(7), JString(""), JString("A")}
AudioDataValues == {JAbsent, JNumber(7), JString(""), JString("b64"), JString("junk")}
SentenceValues  == {JAbsent, JNumber(1)}

\* msg.Data when the type assertion to map[string]interface{} succeeds
MapData == [isMap : {TRUE}, segment_id : SegmentIdValues,
            audio_data : AudioDataValues, sentence_number : SentenceValues]
\* msg.Data when it fails: null, a string, a number, an array
NotMapData == [isMap |-> FALSE, segment_id |-> JAbsent, audio_data |-> JAbsent,
               sentence_number |-> JAbsent]
SegmentData == [isMap |-> TRUE, segment_id |-> JString("A"),
                audio_data |-> JString("b64"), sentence_number |-> JNumber(1)]

\* WebSocketResponse (types.go): Type is nil or names the event
Messages ==
    [Type : {"tts_audio"}, Data : MapData \cup {NotMapData}]
        \cup [Type : {"nil", "transcription"}, Data : {NotMapData, SegmentData}]

\* NewVocalsClient with AutoConnect off (client.go:30-72)
NewVocalsClient ==
    /\ inbound = <<>>
    /\ ttsLoop = "none"
    /\ ttsPending = {}
    /\ ttsHandled = <<>>

notApTts == <<wsVars, hVars, codecVars, statsVars, dbVars, histVars, tokVars,
            sessVars,
            rtVars,
            convVars,
            intVars,
            capVars,
            fanVars,
            finVars,
            bufVars,
            ampVars,
            ptVars,
            clVars,
            acVars>>

\* performConnection: go wsc.messageLoop()
LoopStart ==
    /\ ttsLoop = "none"
    /\ ttsLoop' = "reading"
    /\ UNCHANGED <<notTts, inbound, ttsPending, ttsHandled>>

\* messageLoop: ReadJSON returns msg, handleMessage spawns the handler and
\* the loop goes on to the next read
HandleMessage(msg) ==
    /\ ttsLoop = "reading"
    /\ Len(inbound) < MaxInbound
    /\ inbound' = Append(inbound, msg)
    /\ ttsPending' = ttsPending \cup {Len(inbound) + 1}
    /\ UNCHANGED <<notTts, ttsLoop, ttsHandled>>

\* messageLoop: ReadJSON fails and the loop returns
ReadError ==
    /\ ttsLoop = "reading"
    /\ ttsLoop' = "done"
    /\ UNCHANGED <<notTts, inbound, ttsPending, ttsHandled>>

\* whether base64 decoding of the segment's AudioData will succeed
ValidAudio(audio) == audio # "junk"

\* The handler without the test for an empty segment id or payload.
InternalHandlerUnchecked(m) ==
    /\ m \in ttsPending
    /\ ttsPending' = ttsPending \ {m}
    /\ ttsHandled' = Append(ttsHandled, m)
    /\ LET msg == inbound[m]
           data == msg.Data
       IN IF msg.Type = "tts_audio" /\ data.isMap
          THEN /\ AddToQueueLocked(getString(data, "segment_id"),
                                   getInt(data, "sentence_number"),
                                   ValidAudio(getString(data, "audio_data")))
               /\ UNCHANGED <<playbackState, currentSegment, autoPlayback,
                              cyclePc, popLog, ctl, cleared>>
          ELSE UNCHANGED apVars
    /\ UNCHANGED <<notApTts, inbound, ttsLoop>>

\* The handler goroutine of message m (client.go:75-101), AddToQueue
\* included.
InternalHandler(m) ==
    /\ m \in ttsPending
    /\ ttsPending' = ttsPending \ {m}
    /\ ttsHandled' = Append(ttsHandled, m)
    /\ LET msg == inbound[m]
           data == msg.Data
           segmentID == getString(data, "segment_id")
           audioData == getString(data, "audio_data")
       IN IF /\ msg.Type = "tts_audio"
             /\ data.isMap
             /\ ~(segmentID = "" \/ audioData = "")
          THEN /\ AddToQueueLocked(segmentID, getInt(data, "sentence_number"),
                                   ValidAudio(audioData))
               /\ UNCHANGED <<playbackState, currentSegment, autoPlayback,
                              cyclePc, popLog, ctl, cleared>>
          ELSE UNCHANGED apVars
    /\ UNCHANGED <<notApTts, inbound, ttsLoop>>

(***************************************************************************)
(*        VocalsClient: connections, the settings event and media          *)
(*                                                                         *)
(* Connect, handleReconnect, IsConnected and SendMessage each run from     *)
(* start to end under wsc.mu, so each is one step here; connectWithRetry   *)
(* ends with a new connection (ok) or with state Error.                    *)
(***************************************************************************)
SessConns == 1..MaxSessDials

NewSession ==
    /\ sessState = "Disconnected"
    /\ sessConn = 0
    /\ sessDialled = 0
    /\ sessLoop = 0
    /\ sessReconnect = FALSE
    /\ sessOrigin = [k \in SessConns |-> "none"]
    /\ sessSent = [k \in SessConns |-> <<>>]
    /\ ecPc = "idle"
    /\ recording = FALSE
    /\ sessOps = 0

\* connectWithRetry (websocket_client.go:67-92) called by `origin`
SessConnectWithRetry(ok, origin) ==
    IF ok
    THEN /\ sessDialled' = sessDialled + 1
         /\ sessConn' = sessDialled + 1
         /\ sessState' = "Connected"
         /\ sessLoop' = sessDialled + 1
         /\ sessOrigin' = [sessOrigin EXCEPT ![sessDialled + 1] = origin]
    ELSE /\ sessState' = "Error"
         /\ UNCHANGED <<sessDialled, sessConn, sessLoop, sessOrigin>>

\* VocalsClient.Connect called by the user (client.go:116-118,
\* websocket_client.go:53-65)
SessConnect(ok) ==
    /\ sessOps < MaxSessOps
    /\ sessOps' = sessOps + 1
    /\ ok => sessDialled < MaxSessDials
    /\ IF ConnectRefused(sessState)
       THEN UNCHANGED <<sessState, sessDialled, sessConn, sessLoop, sessOrigin>>
       ELSE SessConnectWithRetry(ok, "Connect")
    /\ UNCHANGED <<notSess, sessReconnect, sessSent, ecPc, recording>>

\* EnsureConnected: the first IsConnected test (client.go:126-129)
EcCall ==
    /\ ecPc = "idle"
    /\ ecPc' = IF sessState = "Connected" THEN "returned" ELSE "connect"
    /\ UNCHANGED <<notSess, sessState, sessConn, sessDialled, sessLoop,
                   sessReconnect, sessOrigin, sessSent, recording, sessOps>>

\* EnsureConnected: c.Connect() (client.go:134-136)
EcConnect(ok) ==
    /\ ecPc = "connect"
    /\ ok => sessDialled < MaxSessDials
    /\ IF ConnectRefused(sessState)
       THEN /\ ecPc' = "failed"
            /\ UNCHANGED <<sessState, sessDialled, sessConn, sessLoop, sessOrigin>>
       ELSE /\ SessConnectWithRetry(ok, "EnsureConnected")
            /\ ecPc' = IF ok THEN "wait" ELSE "failed"
    /\ UNCHANGED <<notSess, sessReconnect, sessSent, recording, sessOps>>

\* EnsureConnected: a tick of the 100 ms ticker (client.go:149-163)
EcTick ==
    /\ ecPc = "wait"
    /\ sessState \in {"Connected", "Error"}
    /\ ecPc' = IF sessState = "Connected" THEN "settings" ELSE "failed"
    /\ UNCHANGED <<notSess, sessState, sessConn, sessDialled, sessLoop,
                   sessReconnect, sessOrigin, sessSent, recording, sessOps>>

\* EnsureConnected: the 10 s timeout (client.go:147-148)
EcTimeout ==
    /\ ecPc = "wait"
    /\ ecPc' = "failed"
    /\ UNCHANGED <<notSess, sessState, sessConn, sessDialled, sessLoop,
                   sessReconnect, sessOrigin, sessSent, recording, sessOps>>

\* SendMessage (websocket_client.go:192-205) of an event of this kind
SessSendMessage(kind) ==
    IF SendAllowed(sessState)
    THEN sessSent' = [sessSent EXCEPT ![sessConn] = Append(@, kind)]
    ELSE UNCHANGED sessSent

\* EnsureConnected: sendSettingsEvent and return nil (client.go:154-158,
\* 170-184)
EcSettings ==
    /\ ecPc = "settings"
    /\ SessSendMessage("settings")
    /\ ecPc' = "returned"
    /\ UNCHANGED <<notSess, sessState, sessConn, sessDialled, sessLoop,
                   sessReconnect, sessOrigin, recording, sessOps>>

\* VocalsClient.StartRecording installs the sink (client.go:186-218)
SessStartRecording ==
    /\ ~recording
    /\ recording' = TRUE
    /\ UNCHANGED <<notSess, sessState, sessConn, sessDialled, sessLoop,
                   sessReconnect, sessOrigin, sessSent, ecPc, sessOps>>

\* The sink on one capture buffer (client.go:187-216): frames are skipped
\* unless IsConnected, then SendMessage writes a media event
CaptureSink ==
    /\ recording
    /\ sessState = "Connected"
    /\ Len(sessSent[sessConn]) < MaxMedia
    /\ SessSendMessage("media")
    /\ UNCHANGED <<notSess, sessState, sessConn, sessDialled, sessLoop,
                   sessReconnect, sessOrigin, ecPc, recording, sessOps>>

\* messageLoop: ReadJSON fails (websocket_client.go:151-161)
SessReadError ==
    /\ sessLoop # 0
    /\ sessLoop' = 0
    /\ IF sessState = "Connected"
       THEN /\ sessState' = "Reconnecting"
            /\ sessReconnect' = TRUE
       ELSE UNCHANGED <<sessState, sessReconnect>>
    /\ UNCHANGED <<notSess, sessConn, sessDialled, sessOrigin, sessSent, ecPc,
                   recording, sessOps>>

\* handleReconnect (websocket_client.go:172-184)
SessHandleReconnect(ok) ==
    /\ sessReconnect
    /\ sessReconnect' = FALSE
    /\ ok => sessDialled < MaxSessDials
    /\ IF sessState # "Reconnecting"
       THEN UNCHANGED <<sessState, sessDialled, sessConn, sessLoop, sessOrigin>>
       ELSE SessConnectWithRetry(ok, "reconnect")
    /\ UNCHANGED <<notSess, sessSent, ecPc, recording, sessOps>>

(***************************************************************************)
(*     connectWithRetry with the causes of a failed performConnection      *)
(*                                                                         *)
(* performConnection (websocket_client.go:94-136) returns an error when    *)
(* the token cannot be obtained (GetToken of the token manager, lines      *)
(* 100-103, or local generation, lines 105-116) and when the dial fails    *)
(* (lines 128-131).  One goroutine runs one episode at a time, under       *)
(* wsc.mu.                                                                 *)
(***************************************************************************)
\* what performConnection can return under this configuration
ConnectionResults(useTokenAuth, hasManager) ==
    {"ok", "dial failed"}
        \cup (IF useTokenAuth
              THEN IF hasManager THEN {"failed to get token"}
                                 ELSE {"failed to generate token"}
              ELSE {})

\* The configuration is set in InitRetry; this is the default one.
NewRetry ==
    /\ rtUseTokenAuth = TRUE
    /\ rtHasManager = FALSE
    /\ rtMax = DefaultMaxReconnectAttempts
    /\ rtAttempts = 0
    /\ rtState = "Disconnected"
    /\ rtPc = "idle"
    /\ rtErr = "none"
    /\ rtLog = <<>>
    /\ rtEpisodes = 0

\* Connect (websocket_client.go:53-65) up to the call of connectWithRetry
RtConnect ==
    /\ rtPc = "idle"
    /\ rtEpisodes < MaxEpisodes
    /\ ~ConnectRefused(rtState)
    /\ rtState' = "Connecting"
    /\ rtAttempts' = 0
    /\ rtPc' = "cwr"
    /\ rtLog' = <<>>
    /\ rtEpisodes' = rtEpisodes + 1
    /\ UNCHANGED <<notRt, rtUseTokenAuth, rtHasManager, rtMax, rtErr>>

\* messageLoop's read failure and handleReconnect up to the call of
\* connectWithRetry (websocket_client.go:151-161, 172-178)
RtReconnect ==
    /\ rtPc = "idle"
    /\ rtEpisodes < MaxEpisodes
    /\ rtState = "Connected"
    /\ rtState' = "Reconnecting"
    /\ rtPc' = "cwr"
    /\ rtLog' = <<>>
    /\ rtEpisodes' = rtEpisodes + 1
    /\ UNCHANGED <<notRt, rtUseTokenAuth, rtHasManager, rtMax, rtAttempts, rtErr>>

\* connectWithRetry: the loop test and performConnection (67-68, 94-136)
RtPerform(r) ==
    /\ rtPc = "cwr"
    /\ IF rtAttempts < rtMax
       THEN /\ r \in ConnectionResults(rtUseTokenAuth, rtHasManager)
            /\ rtErr' = r
            /\ rtLog' = Append(rtLog, r)
            /\ rtPc' = "cwr_after"
       ELSE /\ r = "ok"
            /\ rtErr' = "failed to connect"
            /\ rtPc' = "ret"
            /\ UNCHANGED rtLog
    /\ UNCHANGED <<notRt, rtUseTokenAuth, rtHasManager, rtMax, rtAttempts,
                   rtState, rtEpisodes>>

\* connectWithRetry: the rest of the loop body (69-89)
RtAfter ==
    /\ rtPc = "cwr_after"
    /\ IF rtErr # "ok"
       THEN /\ rtAttempts' = rtAttempts + 1
            /\ IF rtAttempts + 1 >= rtMax
               THEN rtState' = "Error" /\ rtPc' = "ret"
               ELSE rtPc' = "cwr" /\ UNCHANGED rtState
       ELSE /\ rtState' = "Connected"
            /\ rtAttempts' = 0
            /\ rtPc' = "ret"
    /\ UNCHANGED <<notRt, rtUseTokenAuth, rtHasManager, rtMax, rtErr, rtLog,
                   rtEpisodes>>

\* The return of Connect, or of handleReconnect (179-183), which sets Error
\* when connectWithRetry returned an error
RtReturn ==
    /\ rtPc = "ret"
    /\ rtPc' = "idle"
    /\ rtState' = IF rtErr # "ok" /\ rtState = "Reconnecting" THEN "Error" ELSE rtState
    /\ UNCHANGED <<notRt, rtUseTokenAuth, rtHasManager, rtMax, rtAttempts, rtErr,
                   rtLog, rtEpisodes>>

(***************************************************************************)
(*      Conversation: the pending utterance, prompts and replies           *)
(*                                                                         *)
(* handleIncomingMessage runs under c.mu from start to end, so each        *)
(* message is one step.  A text is its length; a turn's content is the     *)
(* length of its text, 0 for the empty string.  The k-th response message  *)
(* carries the text k on the channel.                                      *)
(***************************************************************************)
DefaultMaxTextLength == 1000
ResponseChanCap == 10

Prompters == 1..MaxPrompts
NoUtterance == [isMap |-> FALSE, text |-> 0, isFinal |-> FALSE]

NewUtterance ==
    /\ maxTextLength = DefaultMaxTextLength
    /\ currentText = 0
    /\ aiPc = [g \in Prompters |-> "none"]
    /\ aiHistory = [g \in Prompters |-> 0]
    /\ aiSentAt = [g \in Prompters |-> 0]
    /\ aiGot = [g \in Prompters |-> 0]
    /\ responseChan = <<>>
    /\ respCount = 0
    /\ uttCount = 0
    /\ uttLast = NoUtterance

\* sendToAI goroutines spawned so far
Spawned == Cardinality({g \in Prompters : aiPc[g] # "none"})

\* `go c.sendToAI()`
SpawnSendToAI == aiPc' = [aiPc EXCEPT ![Spawned + 1] = "spawned"]

\* text[:MaxTextLength-len(currentText)] when the sum exceeds MaxTextLength
Truncated(pending, text, limit) ==
    IF pending + text > limit THEN limit - pending ELSE text

\* handleIncomingMessage, "transcription" (conversation.go:84-100); text is
\* getString(data, "text"), isFinal is getBoolUtil(data, "is_final")
Transcription(isMap, text, isFinal) ==
    /\ uttCount < MaxUtter
    /\ isFinal => Spawned < MaxPrompts
    /\ uttCount' = uttCount + 1
    /\ uttLast' = [isMap |-> isMap, text |-> text, isFinal |-> isFinal]
    /\ IF ~isMap
       THEN UNCHANGED <<currentText, history, aiPc>>
       ELSE LET accumulated == currentText + Truncated(currentText, text, maxTextLength)
            IN IF isFinal
               THEN /\ history' = addToHistory(history, "user", accumulated, maxHistory)
                    /\ currentText' = 0
                    /\ SpawnSendToAI
               ELSE /\ currentText' = accumulated
                    /\ UNCHANGED <<history, aiPc>>
    /\ UNCHANGED <<notConvHist, maxHistory, turnCount, allCommitted, sinceImport,
                   maxRaised, maxSets, maxTextLength, aiHistory, aiSentAt, aiGot,
                   responseChan, respCount>>

\* handleIncomingMessage, "response" (conversation.go:106-115): the send on
\* the channel is non-blocking and the channel has room for
\* ResponseChanCap texts
Response(isMap, empty) ==
    /\ respCount < MaxResponses
    /\ respCount' = respCount + 1
    /\ IF ~isMap
       THEN UNCHANGED <<history, responseChan>>
       ELSE /\ history' = addToHistory(history, "assistant",
                                       IF empty THEN 0 ELSE 1, maxHistory)
            /\ responseChan' = IF Len(responseChan) < ResponseChanCap
                               THEN Append(responseChan, respCount + 1)
                               ELSE responseChan
    /\ UNCHANGED <<notConvHist, maxHistory, turnCount, allCommitted, sinceImport,
                   maxRaised, maxSets, maxTextLength, currentText, aiPc, aiHistory,
                   aiSentAt, aiGot, uttCount, uttLast>>

\* sendToAI: the copy of the history under c.mu and the test for an empty
\* one (conversation.go:174-182)
AiCopy(g) ==
    /\ aiPc[g] = "spawned"
    /\ aiHistory' = [aiHistory EXCEPT ![g] = Len(history)]
    /\ aiPc' = [aiPc EXCEPT ![g] = IF history = <<>> THEN "done" ELSE "send"]
    /\ UNCHANGED <<notConv, maxTextLength, currentText, aiSentAt, aiGot,
                   responseChan, respCount, uttCount, uttLast>>

\* sendToAI: SendMessage of the ai_prompt event (conversation.go:184-203);
\* ok: the client is Connected and the write succeeds
AiSend(g, ok) ==
    /\ aiPc[g] = "send"
    /\ aiPc' = [aiPc EXCEPT ![g] = IF ok THEN "waiting" ELSE "done"]
    /\ aiSentAt' = [aiSentAt EXCEPT ![g] = respCount]
    /\ UNCHANGED <<notConv, maxTextLength, currentText, aiHistory, aiGot,
                   responseChan, respCount, uttCount, uttLast>>

\* sendToAI: the wait ends with a receive from c.responseChan (207-213)
AiReceive(g) ==
    /\ aiPc[g] = "waiting"
    /\ responseChan # <<>>
    /\ aiGot' = [aiGot EXCEPT ![g] = Head(responseChan)]
    /\ responseChan' = Tail(responseChan)
    /\ aiPc' = [aiPc EXCEPT ![g] = "done"]
    /\ UNCHANGED <<notConv, maxTextLength, currentText, aiHistory, aiSentAt,
                   respCount, uttCount, uttLast>>

\* sendToAI: the wait ends with the timeout (205-206)
AiTimeout(g) ==
    /\ aiPc[g] = "waiting"
    /\ aiPc' = [aiPc EXCEPT ![g] = "timeout"]
    /\ UNCHANGED <<notConv, maxTextLength, currentText, aiHistory, aiSentAt,
                   aiGot, responseChan, respCount, uttCount, uttLast>>

\* SendText with a non-empty text (conversation.go:216-226)
ConvSendText ==
    /\ Spawned < MaxPrompts
    /\ history' = addToHistory(history, "user", 1, maxHistory)
    /\ SpawnSendToAI
    /\ UNCHANGED <<notConvHist, maxHistory, turnCount, allCommitted, sinceImport,
                   maxRaised, maxSets, maxTextLength, currentText, aiHistory,
                   aiSentAt, aiGot, responseChan, respCount, uttCount, uttLast>>

(***************************************************************************)
(*                 Conversation: the interruption path                     *)
(*                                                                         *)
(* An interruption path is a run of Conversation.Interrupt: started by     *)
(* handleIncomingMessage on an "interruption" message, which holds c.mu    *)
(* (conversation.go:75-76) while it calls Interrupt, or by a caller of     *)
(* Interrupt that holds no lock (the user, the debounce timer).            *)
(***************************************************************************)
IntPaths == 1..MaxInterrupts
IntKinds == {"server", "call", "timer"}

NewInterruption ==
    /\ autoInterrupt = TRUE
    /\ intConnected = TRUE
    /\ intMu = 0
    /\ intKind = [g \in IntPaths |-> "none"]
    /\ intPc = [g \in IntPaths |-> "none"]
    /\ intSent = [g \in IntPaths |-> 0]
    /\ intFades = [g \in IntPaths |-> 0]
    /\ intFlips = 0

\* handleIncomingMessage, "interruption" (conversation.go:75-76, 116-122)
IntServerBegin(g) ==
    /\ intPc[g] = "none"
    /\ \A h \in IntPaths : h < g => intPc[h] # "none"
    /\ intMu = 0
    /\ intKind' = [intKind EXCEPT ![g] = "server"]
    /\ IF autoInterrupt
       THEN /\ intMu' = g
            /\ intPc' = [intPc EXCEPT ![g] = "send"]
       ELSE /\ intPc' = [intPc EXCEPT ![g] = "skipped"]
            /\ UNCHANGED intMu
    /\ UNCHANGED <<notInt, autoInterrupt, intConnected, intSent, intFades, intFlips>>

\* Interrupt called by the user or by the debounce timer (140-147, 228)
IntLocalBegin(g, kind) ==
    /\ intPc[g] = "none"
    /\ \A h \in IntPaths : h < g => intPc[h] # "none"
    /\ kind \in {"call", "timer"}
    /\ intKind' = [intKind EXCEPT ![g] = kind]
    /\ intPc' = [intPc EXCEPT ![g] = "send"]
    /\ UNCHANGED <<notInt, autoInterrupt, intConnected, intMu, intSent, intFades,
                   intFlips>>

\* Interrupt: SendMessage of the interrupt event (229-237); on an error
\* Interrupt returns it, and the message handler returns and unlocks
IntSend(g) ==
    /\ intPc[g] = "send"
    /\ IF intConnected
       THEN /\ intSent' = [intSent EXCEPT ![g] = @ + 1]
            /\ intPc' = [intPc EXCEPT ![g] = "fade"]
            /\ UNCHANGED intMu
       ELSE /\ intPc' = [intPc EXCEPT ![g] = "failed"]
            /\ intMu' = IF intKind[g] = "server" THEN 0 ELSE intMu
            /\ UNCHANGED intSent
    /\ UNCHANGED <<notInt, autoInterrupt, intConnected, intKind, intFades, intFlips>>

\* Interrupt: c.audioProcessor.FadeOutAudio (239)
IntFade(g) ==
    /\ intPc[g] = "fade"
    /\ intFades' = [intFades EXCEPT ![g] = @ + 1]
    /\ intPc' = [intPc EXCEPT ![g] = "lock"]
    /\ UNCHANGED <<notInt, autoInterrupt, intConnected, intMu, intKind, intSent,
                   intFlips>>

\* Interrupt: c.mu.Lock(); c.currentText = ""; c.mu.Unlock(); return nil
\* (240-243), after which the message handler returns and unlocks.
\* sync.Mutex is not reentrant: Lock waits until c.mu is free.
IntClear(g) ==
    /\ intPc[g] = "lock"
    /\ intMu = 0
    /\ currentText' = 0
    /\ intPc' = [intPc EXCEPT ![g] = "done"]
    /\ UNCHANGED <<autoInterrupt, intConnected, intMu, intKind, intSent, intFades,
                   intFlips>>
    /\ UNCHANGED <<notConvInt, maxTextLength, aiPc, aiHistory, aiSentAt, aiGot,
                   responseChan, respCount, uttCount, uttLast>>

\* A non-final transcription message (84-100), handled under c.mu
IntTranscription(text) ==
    /\ intMu = 0
    /\ Transcription(TRUE, text, FALSE)

\* The connection is lost or re-established.
IntConnFlip ==
    /\ intFlips < MaxFlips
    /\ intFlips' = intFlips + 1
    /\ intConnected' = ~intConnected
    /\ UNCHANGED <<notInt, autoInterrupt, intMu, intKind, intPc, intSent, intFades>>

(***************************************************************************)
(*        The capture sink against Connect and reconnection                *)
(*                                                                         *)
(* PortAudio invokes the capture callback once per buffer; the callback    *)
(* calls the sink synchronously (audio_processor.go:79-81), and the sink   *)
(* calls IsConnected and SendMessage, which lock wsc.mu.  Connect and      *)
(* handleReconnect hold wsc.mu from entry to return, through every dial    *)
(* and every time.Sleep of connectWithRetry.                               *)
(***************************************************************************)
NewCapture ==
    /\ capMu = "free"
    /\ capState = "Disconnected"
    /\ capAttempts = 0
    /\ capPc = "idle"
    /\ cbPc = "idle"
    /\ cbFrames = 0
    /\ cbSent = 0
    /\ capEpisodes = 0

\* Connect: Lock, the state test, setState(Connecting) (53-62)
CapConnect ==
    /\ capPc = "idle"
    /\ capEpisodes < MaxCapEpisodes
    /\ capMu = "free"
    /\ ~ConnectRefused(capState)
    /\ capMu' = "connect"
    /\ capState' = "Connecting"
    /\ capAttempts' = 0
    /\ capPc' = "dial"
    /\ capEpisodes' = capEpisodes + 1
    /\ UNCHANGED <<notCap, cbPc, cbFrames, cbSent>>

\* messageLoop: a read failure in state Connected (151-161)
CapReadError ==
    /\ capState = "Connected"
    /\ capEpisodes < MaxCapEpisodes
    /\ capState' = "Reconnecting"
    /\ capEpisodes' = capEpisodes + 1
    /\ UNCHANGED <<notCap, capMu, capAttempts, capPc, cbPc, cbFrames, cbSent>>

\* handleReconnect: Lock and the state test (172-178)
CapReconnect ==
    /\ capPc = "idle"
    /\ capState = "Reconnecting"
    /\ capMu = "free"
    /\ capMu' = "connect"
    /\ capPc' = "dial"
    /\ UNCHANGED <<notCap, capState, capAttempts, cbPc, cbFrames, cbSent, capEpisodes>>

\* connectWithRetry: performConnection returns (68-89); the handshake was
\* in progress while capPc = "dial".  On success and on exhaustion the
\* caller returns and unlocks.
CapDialDone(ok) ==
    /\ capPc = "dial"
    /\ IF ok
       THEN /\ capState' = "Connected"
            /\ capAttempts' = 0
            /\ capPc' = "idle"
            /\ capMu' = "free"
       ELSE /\ capAttempts' = capAttempts + 1
            /\ IF capAttempts + 1 >= maxReconnectAttempts
               THEN /\ capState' = "Error"
                    /\ capPc' = "idle"
                    /\ capMu' = "free"
               ELSE /\ capPc' = "sleep"
                    /\ UNCHANGED <<capState, capMu>>
    /\ UNCHANGED <<notCap, cbPc, cbFrames, cbSent, capEpisodes>>

\* connectWithRetry: time.Sleep(ReconnectDelay) ends (81-82)
CapSleepDone ==
    /\ capPc = "sleep"
    /\ capPc' = "dial"
    /\ UNCHANGED <<notCap, capMu, capState, capAttempts, cbPc, cbFrames, cbSent, capEpisodes>>

\* PortAudio invokes the capture callback, which calls the sink
CbInvoke ==
    /\ cbPc = "idle"
    /\ cbFrames < MaxCbFrames
    /\ cbFrames' = cbFrames + 1
    /\ cbPc' = "is_connected"
    /\ UNCHANGED <<notCap, capMu, capState, capAttempts, capPc, cbSent, capEpisodes>>

\* the sink: IsConnected (client.go:189, websocket_client.go:295-299)
CbIsConnected ==
    /\ cbPc = "is_connected"
    /\ capMu = "free"
    /\ cbPc' = IF capState = "Connected" THEN "send" ELSE "idle"
    /\ UNCHANGED <<notCap, capMu, capState, capAttempts, capPc, cbFrames, cbSent, capEpisodes>>

\* the sink: SendMessage locks and tests the state (client.go:211,
\* websocket_client.go:192-198)
CbSendMessage ==
    /\ cbPc = "send"
    /\ capMu = "free"
    /\ IF SendAllowed(capState)
       THEN capMu' = "callback" /\ cbPc' = "write"
       ELSE cbPc' = "idle" /\ UNCHANGED capMu
    /\ UNCHANGED <<notCap, capState, capAttempts, capPc, cbFrames, cbSent, capEpisodes>>

\* the sink: conn.WriteJSON returns (websocket_client.go:204), unlock
CbWriteDone ==
    /\ cbPc = "write"
    /\ capMu' = "free"
    /\ cbPc' = "idle"
    /\ cbSent' = cbSent + 1
    /\ UNCHANGED <<notCap, capState, capAttempts, capPc, cbFrames, capEpisodes>>

(***************************************************************************)
(*              The handler lists: fan-out against mutation                *)
(*                                                                         *)
(* AddXHandler and the closures it returns lock the owner's mutex around   *)
(* the append and the splice.  The fan-out loops are handleMessage,        *)
(* setState, handleError and the capture callback; whether the mutex is    *)
(* held during a loop depends on the caller.                               *)
(***************************************************************************)
ListOwners == {"wsc", "ap"}

\* The mutex AddXHandler locks for the list of kind k: ap.mu for
\* audioDataHandlers, wsc.mu for the three lists of the WebSocketClient.
ListOwner(k) == IF k = "audioData" THEN "ap" ELSE "wsc"

\* The call sites of the fan-out loops, with the list each ranges over and
\* whether its caller holds the list's mutex:
\*   messageLoop -> handleMessage (167, 186-190): no lock
\*   Connect -> setState(Connecting) (54-61, 222-229): wsc.mu held
\*   messageLoop -> setState(Reconnecting) (157, 222-229): no lock
\*   handleReconnect -> handleError (173-182, 231-236): wsc.mu held
\*   the capture callback (audio_processor.go:72-85): runs on the audio
\*   thread after StartRecording has returned and unlocked ap.mu
FanSites == {
    [site |-> "messageLoop.handleMessage", kind |-> "message", locked |-> FALSE],
    [site |-> "Connect.setState", kind |-> "connection", locked |-> TRUE],
    [site |-> "messageLoop.setState", kind |-> "connection", locked |-> FALSE],
    [site |-> "handleReconnect.handleError", kind |-> "error", locked |-> TRUE],
    [site |-> "captureCallback", kind |-> "audioData", locked |-> FALSE] }

FanSiteOf(name) == CHOOSE s \in FanSites : s.site = name

NewFanOut ==
    /\ listMu = [o \in ListOwners |-> "free"]
    /\ mutOp = "none"
    /\ mutKind = "none"
    /\ mutReg = 0
    /\ fanSite = "none"
    /\ mutOps = 0
    /\ fanCount = 0

\* AddXHandler: mu.Lock()
FanAddLock(k) ==
    /\ mutOp = "none"
    /\ mutOps < MaxListOps
    /\ regCount[k] < MaxHandlers
    /\ listMu[ListOwner(k)] = "free"
    /\ listMu' = [listMu EXCEPT ![ListOwner(k)] = "mutator"]
    /\ mutOp' = "add"
    /\ mutKind' = k
    /\ UNCHANGED <<notHFan, hVars, mutReg, fanSite, mutOps, fanCount>>

\* AddXHandler: the append, mu.Unlock()
FanAddDone ==
    /\ mutOp = "add"
    /\ regCount' = [regCount EXCEPT ![mutKind] = @ + 1]
    /\ handlerList' = [handlerList EXCEPT ![mutKind] = Append(@, regCount[mutKind] + 1)]
    /\ listMu' = [listMu EXCEPT ![ListOwner(mutKind)] = "free"]
    /\ mutOp' = "none"
    /\ mutKind' = "none"
    /\ mutOps' = mutOps + 1
    /\ UNCHANGED <<notHFan, deregistered, lateInvoked, deregObs, mutReg, fanSite, fanCount>>

\* the returned closure: mu.Lock()
FanDeregLock(k, r) ==
    /\ mutOp = "none"
    /\ mutOps < MaxListOps
    /\ r <= regCount[k]
    /\ r \notin deregistered[k]
    /\ listMu[ListOwner(k)] = "free"
    /\ listMu' = [listMu EXCEPT ![ListOwner(k)] = "mutator"]
    /\ mutOp' = "dereg"
    /\ mutKind' = k
    /\ mutReg' = r
    /\ UNCHANGED <<notHFan, hVars, fanSite, mutOps, fanCount>>

\* the returned closure: the loop with its splice, mu.Unlock()
FanDeregDone ==
    /\ mutOp = "dereg"
    /\ handlerList' = [handlerList EXCEPT ![mutKind] = RemoveHandler(@, mutReg)]
    /\ deregistered' = [deregistered EXCEPT ![mutKind] = @ \cup {mutReg}]
    /\ listMu' = [listMu EXCEPT ![ListOwner(mutKind)] = "free"]
    /\ mutOp' = "none"
    /\ mutKind' = "none"
    /\ mutReg' = 0
    /\ mutOps' = mutOps + 1
    /\ UNCHANGED <<notHFan, regCount, lateInvoked, deregObs, fanSite, fanCount>>

\* A fan-out loop starts at call site s; a caller that locks has locked.
FanBegin(s) ==
    /\ fanSite = "none"
    /\ fanCount < MaxFans
    /\ IF s.locked
       THEN /\ listMu[ListOwner(s.kind)] = "free"
            /\ listMu' = [listMu EXCEPT ![ListOwner(s.kind)] = "dispatch"]
       ELSE UNCHANGED listMu
    /\ fanSite' = s.site
    /\ UNCHANGED <<notHFan, hVars, mutOp, mutKind, mutReg, mutOps, fanCount>>

\* The loop ends: one `go handler(x)` per entry has been started; a caller
\* that locked unlocks when it returns.
FanEnd ==
    /\ fanSite # "none"
    /\ LET s == FanSiteOf(fanSite)
       IN  /\ lateInvoked' = [lateInvoked EXCEPT
                 ![s.kind] = @ \cup ({handlerList[s.kind][i] : i \in DOMAIN handlerList[s.kind]}
                                      \cap deregistered[s.kind])]
           /\ IF s.locked
              THEN listMu' = [listMu EXCEPT ![ListOwner(s.kind)] = "free"]
              ELSE UNCHANGED listMu
    /\ fanSite' = "none"
    /\ fanCount' = fanCount + 1
    /\ UNCHANGED <<notHFan, handlerList, regCount, deregistered, deregObs,
                   mutOp, mutKind, mutReg, mutOps>>

(***************************************************************************)
(*          The StreamStats value StreamMicrophoneWithStats returns        *)
(*                                                                         *)
(* The call registers audioHandler, records, stops, finalizes *stats under *)
(* the local mutex and returns the pointer; the deferred removeHandler     *)
(* runs as it returns.  audioHandler runs in a goroutine of its own per    *)
(* captured buffer (audio_processor.go:82-84) and writes *stats.           *)
(***************************************************************************)
NewStreamStats ==
    /\ finClock = 1
    /\ finPc = "recording"
    /\ finRecording = TRUE
    /\ finList = <<1>>
    /\ finPending = <<>>
    /\ silenceStartTime = 0
    /\ totalSilenceDuration = 0
    /\ finStats = [TotalSamples |-> 0, SilenceDuration |-> 0]
    /\ finReturned = [TotalSamples |-> 0, SilenceDuration |-> 0]
    /\ finFrames = 0

FinTick ==
    /\ finClock < MaxFinClock
    /\ finClock' = finClock + 1
    /\ UNCHANGED <<notFin, finPc, finRecording, finList, finPending, silenceStartTime,
                   totalSilenceDuration, finStats, finReturned, finFrames>>

\* the capture callback: `go h(in)` for every entry of ap.audioDataHandlers
FinCapture(above) ==
    /\ finRecording
    /\ finFrames < MaxFinFrames
    /\ finFrames' = finFrames + 1
    /\ finPending' = IF finList # <<>> THEN Append(finPending, above) ELSE finPending
    /\ UNCHANGED <<notFin, finClock, finPc, finRecording, finList, silenceStartTime,
                   totalSilenceDuration, finStats, finReturned>>

\* audioHandler, one goroutine (client.go:259-337)
FinHandle(i) ==
    /\ i \in DOMAIN finPending
    /\ LET above == finPending[i]
           closes == above /\ silenceStartTime # 0
           total == IF closes THEN totalSilenceDuration + (finClock - silenceStartTime)
                    ELSE totalSilenceDuration
       IN  /\ totalSilenceDuration' = total
           /\ silenceStartTime' = IF above THEN 0
                                  ELSE IF silenceStartTime = 0 THEN finClock
                                  ELSE silenceStartTime
           /\ finStats' = [TotalSamples |-> finStats.TotalSamples + 1,
                           SilenceDuration |-> total]
    /\ finPending' = [j \in 1..(Len(finPending) - 1) |->
                         IF j < i THEN finPending[j] ELSE finPending[j + 1]]
    /\ UNCHANGED <<notFin, finClock, finPc, finRecording, finList, finReturned, finFrames>>

\* StopRecording (client.go:349-352)
FinStop ==
    /\ finPc = "recording"
    /\ finPc' = "stopped"
    /\ finRecording' = FALSE
    /\ UNCHANGED <<notFin, finClock, finList, finPending, silenceStartTime,
                   totalSilenceDuration, finStats, finReturned, finFrames>>

\* the finalization under mu, the return, and the deferred removeHandler
\* (client.go:340-341, 354-371)
FinReturn ==
    /\ finPc = "stopped"
    /\ finPc' = "returned"
    /\ LET final == [finStats EXCEPT !.SilenceDuration =
                        IF silenceStartTime # 0 THEN @ + (finClock - silenceStartTime) ELSE @]
       IN  finStats' = final /\ finReturned' = final
    /\ finList' = RemoveHandler(finList, 1)
    /\ UNCHANGED <<notFin, finClock, finRecording, finPending, silenceStartTime,
                   totalSilenceDuration, finFrames>>

\* a later StartRecording on the same client (client.go:186-218)
FinRecordAgain ==
    /\ finPc = "returned"
    /\ ~finRecording
    /\ finRecording' = TRUE
    /\ UNCHANGED <<notFin, finClock, finPc, finList, finPending, silenceStartTime,
                   totalSilenceDuration, finStats, finReturned, finFrames>>

(***************************************************************************)
(*        Conversation: the pending-utterance buffer against its limit     *)
(***************************************************************************)
NewBuffer ==
    /\ bufLimit = MaxTextLimit
    /\ bufText = 0
    /\ bufFailed = FALSE
    /\ bufLog = <<>>

\* handleIncomingMessage, "transcription" with a map payload
\* (conversation.go:84-100).  text[:n] with n < 0 is a run-time panic.
BufTranscription(text, isFinal) ==
    /\ ~bufFailed
    /\ Len(bufLog) < MaxBufOps
    /\ bufLog' = Append(bufLog, "transcription")
    /\ LET cut == Truncated(bufText, text, bufLimit)
       IN  IF cut < 0
           THEN bufFailed' = TRUE /\ UNCHANGED bufText
           ELSE /\ bufText' = IF isFinal THEN 0 ELSE bufText + cut
                /\ UNCHANGED bufFailed
    /\ UNCHANGED <<notBuf, bufLimit>>

\* Interrupt (228-244): the buffer is cleared when the send succeeded
BufInterrupt(sent) ==
    /\ ~bufFailed
    /\ Len(bufLog) < MaxBufOps
    /\ bufLog' = Append(bufLog, "Interrupt")
    /\ bufText' = IF sent THEN 0 ELSE bufText
    /\ UNCHANGED <<notBuf, bufLimit, bufFailed>>

\* ClearHistory (246-253)
BufClearHistory ==
    /\ ~bufFailed
    /\ Len(bufLog) < MaxBufOps
    /\ bufLog' = Append(bufLog, "ClearHistory")
    /\ bufText' = 0
    /\ UNCHANGED <<notBuf, bufLimit, bufFailed>>

\* SetMaxTextLength (322-330)
SetMaxTextLength(length) ==
    /\ ~bufFailed
    /\ Len(bufLog) < MaxBufOps
    /\ bufLog' = Append(bufLog, "SetMaxTextLength")
    /\ bufLimit' = IF length <= 0 THEN DefaultMaxTextLength ELSE length
    /\ UNCHANGED <<notBuf, bufText, bufFailed>>

(***************************************************************************)
(*        ap.currentAmplitude: the capture callback against readers        *)
(*                                                                         *)
(* The callback writes ap.currentAmplitude without ap.mu: it sets it to 0, *)
(* adds the absolute value of every sample and divides by the number of    *)
(* samples.  GetCurrentAmplitude locks ap.mu and returns the field; the    *)
(* lock excludes nothing, because the writer does not take it.             *)
(***************************************************************************)
AmpFrames == [1..AmpFrameLen -> 0..MaxAmpSample]

NewAmplitude ==
    /\ ampValue = 0
    /\ ampFrame = <<>>
    /\ ampPc = 0
    /\ ampMeans = {}
    /\ ampReads = <<>>
    /\ ampFrames = 0

\* capture callback: ap.currentAmplitude = 0 (audio_processor.go:73)
AmpReset(in) ==
    /\ ampPc = 0
    /\ ampFrames < MaxAmpFrames
    /\ ampFrames' = ampFrames + 1
    /\ ampFrame' = in
    /\ ampValue' = 0
    /\ ampPc' = 1
    /\ UNCHANGED <<notAmp, ampMeans, ampReads>>

\* capture callback: ap.currentAmplitude += |v| (74-76)
AmpAdd ==
    /\ ampPc \in DOMAIN ampFrame
    /\ ampValue' = ampValue + ampFrame[ampPc]
    /\ ampPc' = ampPc + 1
    /\ UNCHANGED <<notAmp, ampFrame, ampMeans, ampReads, ampFrames>>

\* capture callback: ap.currentAmplitude /= float32(len(in)) (77)
AmpDivide ==
    /\ ampPc = Len(ampFrame) + 1
    /\ ampValue' = ampValue \div Len(ampFrame)
    /\ ampMeans' = ampMeans \cup {ampValue \div Len(ampFrame)}
    /\ ampPc' = 0
    /\ UNCHANGED <<notAmp, ampFrame, ampReads, ampFrames>>

\* GetCurrentAmplitude (385-389)
GetCurrentAmplitude ==
    /\ Len(ampReads) < MaxAmpReads
    /\ ampReads' = Append(ampReads, [value |-> ampValue, during |-> ampPc # 0])
    /\ UNCHANGED <<notAmp, ampValue, ampFrame, ampPc, ampMeans, ampFrames>>

(***************************************************************************)
(*          playNextSegment: the completion wait and its timeout           *)
(*                                                                         *)
(* time.Duration(float64(len(samples))/float64(rate)*1.5) * time.Second:   *)
(* the conversion to Duration, an int64, drops the fraction of the float   *)
(* before the multiplication by time.Second, so the timeout is a whole     *)
(* number of seconds.  The stream renders one sample per sample period.    *)
(***************************************************************************)
PlayRates == {2, MaxPlayRate}

\* time.Duration(float64(n)/float64(rate)*1.5), in seconds
PlayTimeout(n, rate) == (3 * n) \div (2 * rate)

NewPlayWait ==
    /\ ptSamples = 0
    /\ ptRate = MaxPlayRate
    /\ ptPc = "idle"
    /\ ptTimeout = 0
    /\ ptElapsed = 0
    /\ sampleIndex = 0

\* playNextSegment up to the select: the segment is decoded, the stream is
\* started, time.After is called (audio_processor.go:149-232)
PtStart(n, rate) ==
    /\ ptPc = "idle"
    /\ ptSamples' = n
    /\ ptRate' = rate
    /\ ptTimeout' = PlayTimeout(n, rate)
    /\ ptPc' = "waiting"
    /\ UNCHANGED <<notPt, ptElapsed, sampleIndex>>

\* the playback callback renders the next sample (186-198); one sample
\* period passes
PtRender ==
    /\ ptPc = "waiting"
    /\ sampleIndex < ptSamples
    /\ sampleIndex' = sampleIndex + 1
    /\ ptElapsed' = ptElapsed + 1
    /\ UNCHANGED <<notPt, ptSamples, ptRate, ptPc, ptTimeout>>

\* case <-done: every sample has been output (200-206, 233-234)
PtCompleted ==
    /\ ptPc = "waiting"
    /\ sampleIndex >= ptSamples
    /\ ptPc' = "completed"
    /\ UNCHANGED <<notPt, ptSamples, ptRate, ptTimeout, ptElapsed, sampleIndex>>

\* case <-time.After(...): the timeout has passed (235-236)
PtTimedOut ==
    /\ ptPc = "waiting"
    /\ ptElapsed >= ptTimeout * ptRate
    /\ ptPc' = "timeout"
    /\ UNCHANGED <<notPt, ptSamples, ptRate, ptTimeout, ptElapsed, sampleIndex>>

(***************************************************************************)
(*        Conversation.Cleanup against later inbound messages              *)
(*                                                                         *)
(* NewConversation registers handleIncomingMessage and discards the        *)
(* function AddMessageHandler returns (conversation.go:66), and Cleanup    *)
(* does not deregister it: every inbound message is dispatched to the      *)
(* handler before and after Cleanup.                                       *)
(***************************************************************************)
MsgTypes == {"transcription", "partial_transcription", "response", "interruption",
             "error", "unknown"}

NewCleanup ==
    /\ clClosed = FALSE
    /\ clChan = 0
    /\ clFailed = FALSE
    /\ clLog = <<>>

\* Cleanup (365-376): cancel, ClearHistory, stop the timer, close the channel
Cleanup ==
    /\ ~clClosed
    /\ ~clFailed
    /\ Len(clLog) < MaxClMsgs
    /\ clClosed' = TRUE
    /\ clLog' = Append(clLog, "Cleanup")
    /\ UNCHANGED <<notCl, clChan, clFailed>>

\* handleIncomingMessage (74-133) for a message of type msgType whose Data
\* is a map or not.  A send on a closed channel panics, also as the case
\* of a select with a default.
ClMessage(msgType, isMap) ==
    /\ ~clFailed
    /\ Len(clLog) < MaxClMsgs
    /\ clLog' = Append(clLog, msgType)
    /\ IF msgType = "response" /\ isMap
       THEN IF clClosed
            THEN clFailed' = TRUE /\ UNCHANGED clChan
            ELSE /\ clChan' = IF clChan < ResponseChanCap THEN clChan + 1 ELSE clChan
                 /\ UNCHANGED clFailed
       ELSE UNCHANGED <<clChan, clFailed>>
    /\ UNCHANGED <<notCl, clClosed>>

(***************************************************************************)
(*              Conversation: the auto-interrupt setting                   *)
(*                                                                         *)
(* The connection is up, so a timer that fires sends the interrupt.  The   *)
(* handler of a frame runs as one step here; how handlers of different     *)
(* frames interleave is the subject of the debounce component.             *)
(***************************************************************************)
NewAutoInterrupt ==
    /\ acCreated = FALSE
    /\ acAuto = FALSE
    /\ acRegistered = FALSE
    /\ acTimer = FALSE
    /\ acInterrupts = 0
    /\ acHighRun = 0
    /\ acSets = 0
    /\ acFrames = 0

\* NewConversation with config.AutoInterrupt = auto (conversation.go:49-72)
AcNewConversation(auto) ==
    /\ ~acCreated
    /\ acCreated' = TRUE
    /\ acAuto' = auto
    /\ acRegistered' = auto
    /\ UNCHANGED <<notAc, acTimer, acInterrupts, acHighRun, acSets, acFrames>>

\* EnableAutoInterrupt (295-300)
EnableAutoInterrupt(enable) ==
    /\ acCreated
    /\ acSets < MaxAcSets
    /\ acSets' = acSets + 1
    /\ acAuto' = enable
    /\ acHighRun' = 0
    /\ UNCHANGED <<notAc, acCreated, acRegistered, acTimer, acInterrupts, acFrames>>

\* one capture frame: the callback starts every registered handler
\* (audio_processor.go:82-84); handleAudioForInterrupt (135-156)
AcFrame(above) ==
    /\ acCreated
    /\ acFrames < MaxAcFrames
    /\ acFrames' = acFrames + 1
    /\ acHighRun' = IF above THEN acHighRun + 1 ELSE 0
    /\ acTimer' = IF acRegistered THEN above ELSE acTimer
    /\ UNCHANGED <<notAc, acCreated, acAuto, acRegistered, acInterrupts, acSets>>

\* the timer's function (140-147): Interrupt, then c.interruptTimer = nil
AcTimerFire ==
    /\ acTimer
    /\ acInterrupts < MaxAcFrames
    /\ acInterrupts' = acInterrupts + 1
    /\ acTimer' = FALSE
    /\ UNCHANGED <<notAc, acCreated, acAuto, acRegistered, acHighRun, acSets, acFrames>>

\* The components beside the two above, as constructed.
NewRest ==
    /\ NewHandlerLists
    /\ codecIn = <<>> /\ CodecFresh
    /\ channels = DefaultChannels /\ StatsFresh
    /\ NewConversation
    /\ maxHistory = DefaultMaxHistory /\ HistoryFresh
    /\ refreshBuffer = DefaultTokenRefreshBuffer /\ NewTokenManager
    /\ NewVocalsClient
    /\ NewSession
    /\ NewRetry
    /\ NewUtterance
    /\ NewInterruption
    /\ NewCapture
    /\ NewFanOut
    /\ NewStreamStats
    /\ NewBuffer
    /\ NewAmplitude
    /\ NewPlayWait
    /\ NewCleanup
    /\ NewAutoInterrupt

\* Any configuration that ValidateVocalsConfig accepts.
Init ==
    /\ maxReconnectAttempts \in {n \in -1..MaxAttempts : ValidateVocalsConfig(n)}
    /\ NewWebSocketClient
    /\ NewAudioProcessor
    /\ NewRest

\* The configuration of NewVocalsConfig.
InitDefault ==
    /\ maxReconnectAttempts = DefaultMaxReconnectAttempts
    /\ NewWebSocketClient
    /\ NewAudioProcessor
    /\ NewRest

NextWS ==
    \/ \E t \in Callers : ConnectCall(t)
    \/ \E t \in Callers : ConnectEnter(t)
    \/ \E t \in Callers : ConnectRet(t)
    \/ \E p \in Procs : CwrDial(p)
    \/ \E p \in Procs : CwrAfter(p)
    \/ \E k \in Loops : HrEnter(k)
    \/ \E k \in Loops : HrRet(k)
    \/ \E t \in Callers : SendMessage(t)
    \/ \E t \in Callers : SendWrite(t)
    \/ \E t \in Callers : SendRet(t)
    \/ \E t \in Callers : Disconnect(t)
    \/ \E k \in Loops : LoopSelect(k)
    \/ \E k \in Loops : LoopRead(k)
    \/ \E k \in Loops : LoopRecv(k)
    \/ \E k \in Loops : LoopFailed(k)
    \/ \E k \in Loops : LoopReconnect(k)
    \/ \E k \in Loops : LoopDefer(k)

(***************************************************************************)
(* SpecWS: every user operation, the inbound loops and the reconnection    *)
(* goroutines.  The subscriber goroutines are spawned but left unscheduled:*)
(* they read and write no field of the client.                             *)
(***************************************************************************)
SpecWS == Init /\ [][NextWS]_vars

(***************************************************************************)
(* SpecWSNotify: the default configuration, one user goroutine that calls  *)
(* Connect once, the inbound loops, the reconnection goroutines and the    *)
(* subscriber goroutines.                                                  *)
(***************************************************************************)
NextWSNotify ==
    \/ ops = 0 /\ ConnectCall(Main)
    \/ ConnectEnter(Main)
    \/ ConnectRet(Main)
    \/ \E p \in Procs : CwrDial(p)
    \/ \E p \in Procs : CwrAfter(p)
    \/ \E k \in Loops : HrEnter(k)
    \/ \E k \in Loops : HrRet(k)
    \/ \E k \in Loops : LoopSelect(k)
    \/ \E k \in Loops : LoopRead(k)
    \/ \E k \in Loops : LoopRecv(k)
    \/ \E k \in Loops : LoopFailed(k)
    \/ \E k \in Loops : LoopReconnect(k)
    \/ \E k \in Loops : LoopDefer(k)
    \/ \E i \in DOMAIN connNotes : ConnectionHandlerRun(i)
    \/ \E m \in msgPending : MessageHandlerRun(m)

SpecWSNotify == InitDefault /\ [][NextWSNotify]_vars

(***************************************************************************)
(* SpecAPQueue: AddToQueue calls and the play cycles.                      *)
(* SpecAP: the same with ClearQueue, StopPlayback, PausePlayback and       *)
(* ResumePlayback.                                                         *)
(***************************************************************************)
NextAPQueue ==
    \/ \E id \in SegmentIDs, num \in SentenceNumbers, valid \in BOOLEAN :
           AddToQueue(id, num, valid)
    \/ PlayNext
    \/ \E c \in Payloads : PlayDecode(c)
    \/ \E c \in Payloads : PlayOpen(c)
    \/ \E c \in Payloads : PlayStart(c)
    \/ \E c \in Payloads : PlayWait(c)
    \/ \E c \in Payloads : PlayFinish(c)

NextAP ==
    \/ NextAPQueue
    \/ ClearQueue
    \/ PausePlayback
    \/ ResumePlayback
    \/ StopPlayback
    \/ \E consumeAll \in BOOLEAN : ProcessQueue(consumeAll)

SpecAPQueue == InitDefault /\ [][NextAPQueue]_vars

SpecAP == InitDefault /\ [][NextAP]_vars

(***************************************************************************)
(*                      Claims about WebSocketClient                       *)
(***************************************************************************)
InConnect(t) == pc[t] \in {"c_lock", "cwr", "cwr_after", "c_ret"}

\* C1.  Reconnection bound: a Connect called and entered in state
\* Disconnected, all of whose connection attempts fail, makes exactly
\* MaxReconnectAttempts attempts, returns an error and leaves the state
\* Error; the state is never Connected during the call.  Checked for every
\* MaxReconnectAttempts that ValidateVocalsConfig accepts.
C1_ReconnectionBound ==
    \A t \in Callers :
        (/\ invState[t] = "Disconnected"
         /\ pc[t] \in {"cwr", "cwr_after", "c_ret"}
         /\ res[t] # "already"
         /\ dialRes[t] # "ok")
        => /\ state # "Connected"
           /\ pc[t] = "c_ret" => /\ dials[t] = maxReconnectAttempts
                                 /\ res[t] = "err"
                                 /\ state = "Error"

\* C5.  With MaxReconnectAttempts = 3, a first Connect whose first two
\* attempts fail and whose third succeeds spawns the notifications
\* Connecting, Connected and no Error, its subscriber observes them in that
\* order, and the attempt counter is 0 when Connect returns.
C5_ConnectingThenConnected ==
    (/\ maxReconnectAttempts = 3
     /\ invState[Main] = "Disconnected"
     /\ pc[Main] = "c_ret"
     /\ res[Main] = "ok"
     /\ dials[Main] = 3)
    => /\ Len(connNotes) >= 2
       /\ connNotes[1] = "Connecting"
       /\ connNotes[2] = "Connected"
       /\ reconnectAttempts = 0
       /\ \A i \in DOMAIN connSeen :
              connSeen[i] = 1 => \A j \in 1..(i - 1) : connSeen[j] # 2

\* C6.  A Connect called while the state is Connecting or Connected does not
\* wait for the mutex, makes no connection attempt, returns the
\* already-active error and leaves the state as it was.
C6_AlreadyActiveImmediately ==
    \A t \in Callers :
        invState[t] \in {"Connecting", "Connected"}
        => /\ ~(pc[t] = "c_lock" /\ mu # 0)
           /\ pc[t] \notin {"cwr", "cwr_after"}
           /\ dials[t] = 0
           /\ pc[t] = "c_ret" => (res[t] = "already" /\ state = invState[t])

\* C7.  SendMessage: when the state it reads under the mutex is not
\* Connected it returns the not-connected error and writes nothing; when it
\* is Connected it performs exactly one write, on a transport that is there,
\* returns the result of that write and calls no error subscriber.
C7_SendContract ==
    \A t \in Callers :
        /\ pc[t] # "panic"
        /\ pc[t] = "s_write" => (sendObs[t] = "Connected" /\ sendWrites[t] = 0
                                 /\ conn # 0)
        /\ pc[t] = "s_ret" =>
              IF sendObs[t] # "Connected"
              THEN res[t] = "not connected" /\ sendWrites[t] = 0
              ELSE /\ sendWrites[t] = 1
                   /\ res[t] \in {"nil", "write error"}
                   /\ notes[t] = 0

\* C7 witness: a SendMessage that found the state Connected, wrote once and
\* returns nil.
C7_Sent ==
    \E t \in Callers :
        /\ pc[t] = "s_ret"
        /\ sendObs[t] = "Connected"
        /\ sendWrites[t] = 1
        /\ res[t] = "nil"

\* C8.  After Disconnect has returned, and until Connect is next called, the
\* state is Disconnected and no handleReconnect goroutine is attempting to
\* connect.
C8_DisconnectStays ==
    (discReturned /\ \A t \in Callers : ~InConnect(t))
    => /\ state = "Disconnected"
       /\ \A k \in Loops : pc[Recon(k)] \notin {"cwr", "cwr_after", "hr_ret"}

\* C9.  When connection establishment fails after exhausting a retry bound
\* of at least one attempt, in Connect or in handleReconnect, the state ends
\* in Error and the error subscriber is notified exactly once.
C9_ReportedOnce ==
    maxReconnectAttempts >= 1
    => /\ \A t \in Callers :
              (pc[t] = "c_ret" /\ res[t] = "err")
              => (state = "Error" /\ notes[t] = 1)
       /\ \A k \in Loops :
              (pc[Recon(k)] = "done" /\ res[Recon(k)] = "err")
              => notes[Recon(k)] = 1

\* C10.  The message subscriber processes the inbound messages in the order
\* in which the inbound loop read them.
C10_ArrivalOrder ==
    \A i, j \in DOMAIN msgSeen : i < j => msgSeen[i] < msgSeen[j]

(***************************************************************************)
(*                       Claims about AudioProcessor                       *)
(***************************************************************************)
\* The play cycles between "popped a segment" and "finished with it".
ActiveCycles == {c \in Payloads : cyclePc[c] \notin {"none", "done"}}

SameIdentity(a, b) ==
    a.SegmentID = b.SegmentID /\ a.SentenceNumber = b.SentenceNumber

\* C2.  At most one play cycle is between popping a segment and finishing
\* with it, under any interleaving of AddToQueue, ClearQueue, StopPlayback,
\* PausePlayback, ResumePlayback and the steps of the play cycles.
C2_AtMostOneActive == Cardinality(ActiveCycles) <= 1

\* C3.  Of two AddToQueue calls with the same (SegmentID, SentenceNumber),
\* the second is discarded: its payload is never queued and never played,
\* whatever the play cycles do between the two calls.
C3_DuplicateDiscarded ==
    \A i, j \in DOMAIN addLog :
        (i < j /\ SameIdentity(addLog[i], addLog[j]))
        => (~addLog[j].accepted /\ j \notin Range(popLog))

\* C4.  Enqueueing three well-formed segments with identities A, B, A in
\* that order starts play cycles for the first A and then for B only: the
\* third segment is never popped, in any interleaving with the play cycles.
C4_OnlyAThenB ==
    (/\ Len(addLog) = 3
     /\ \A i \in 1..3 : addLog[i].valid
     /\ SameIdentity(addLog[1], addLog[3])
     /\ ~SameIdentity(addLog[1], addLog[2]))
    => popLog \in {<<>>, <<1>>, <<1, 2>>}

(***************************************************************************)
(* SpecHandlers: registrations, calls of the returned functions and        *)
(* events, for the four handler lists.                                     *)
(***************************************************************************)
NextHandlers ==
    \/ \E k \in HandlerKinds : AddHandler(k)
    \/ \E k \in HandlerKinds, r \in Registrations : Deregister(k, r)
    \/ \E k \in HandlerKinds : Dispatch(k)

SpecHandlers == InitDefault /\ [][NextHandlers]_vars

(***************************************************************************)
(*                      Claims about the handler lists                     *)
(***************************************************************************)
\* C11.  Calling the function returned by AddXHandler removes exactly that
\* registration: the list is one shorter and holds the others in their
\* order, the registration is in no list afterwards, and no later event
\* invokes it.
C11_DeregistrationRemoves ==
    /\ deregObs.reg # 0 =>
          /\ Len(deregObs.after) = Len(deregObs.before) - 1
          /\ deregObs.after = SelectSeq(deregObs.before, LAMBDA x : x # deregObs.reg)
    /\ \A k \in HandlerKinds : \A r \in deregistered[k] :
          /\ \A i \in DOMAIN handlerList[k] : handlerList[k][i] # r
          /\ r \notin lateInvoked[k]

(***************************************************************************)
(* SpecCodec: one round trip for every sample sequence within the bounds.  *)
(***************************************************************************)
InitCodec ==
    /\ maxReconnectAttempts = DefaultMaxReconnectAttempts
    /\ NewWebSocketClient
    /\ NewAudioProcessor
    /\ NewHandlerLists
    /\ codecIn \in SampleSeqs /\ CodecFresh
    /\ channels = DefaultChannels /\ StatsFresh
    /\ NewConversation
    /\ maxHistory = DefaultMaxHistory /\ HistoryFresh
    /\ refreshBuffer = DefaultTokenRefreshBuffer /\ NewTokenManager
    /\ NewVocalsClient
    /\ NewSession
    /\ NewRetry
    /\ NewUtterance
    /\ NewInterruption
    /\ NewCapture
    /\ NewFanOut
    /\ NewStreamStats
    /\ NewBuffer
    /\ NewAmplitude
    /\ NewPlayWait
    /\ NewCleanup
    /\ NewAutoInterrupt

NextCodec ==
    \/ EncodeStep
    \/ DecodeStep

SpecCodec == InitCodec /\ [][NextCodec]_vars

\* C12.  Codec round trip: decoding the encoding of a sample sequence
\* returns no error and a sequence of the same length with the same bit
\* patterns.
C12_RoundTrip ==
    codecPc = "decoded" =>
        /\ ~codecOut.err
        /\ Len(codecOut.samples) = Len(codecIn)
        /\ \A i \in DOMAIN codecIn : codecOut.samples[i] = codecIn[i]

\* A round trip of three samples, among them a signalling NaN and a
\* pattern whose four bytes differ.
C12_RoundTripDone ==
    /\ codecPc = "decoded"
    /\ Len(codecIn) = 3
    /\ \E i, j \in DOMAIN codecIn :
          codecIn[i] = SignallingNaN /\ codecIn[j] = DistinctBytes

(***************************************************************************)
(* SpecStats: one StreamMicrophoneWithStats session, for every channel     *)
(* count within the bounds.                                                *)
(***************************************************************************)
InitStats ==
    /\ maxReconnectAttempts = DefaultMaxReconnectAttempts
    /\ NewWebSocketClient
    /\ NewAudioProcessor
    /\ NewHandlerLists
    /\ codecIn = <<>> /\ CodecFresh
    /\ channels \in 1..MaxChannels /\ StatsFresh
    /\ NewConversation
    /\ maxHistory = DefaultMaxHistory /\ HistoryFresh
    /\ refreshBuffer = DefaultTokenRefreshBuffer /\ NewTokenManager
    /\ NewVocalsClient
    /\ NewSession
    /\ NewRetry
    /\ NewUtterance
    /\ NewInterruption
    /\ NewCapture
    /\ NewFanOut
    /\ NewStreamStats
    /\ NewBuffer
    /\ NewAmplitude
    /\ NewPlayWait
    /\ NewCleanup
    /\ NewAutoInterrupt

NextStats ==
    \/ Tick
    \/ StatsStart
    \/ \E above \in BOOLEAN : CaptureFrame(above)
    \/ \E i \in DOMAIN framesPending : StatsHandleFrame(i)
    \/ StatsStop
    \/ StatsFinalize

SpecStats == InitStats /\ [][NextStats]_vars

\* C13.  VoiceActivityRatio lies in [0,1] after every processed frame and
\* in the final snapshot: the accumulated voice-active time never exceeds
\* the wall-clock time elapsed since the session's start instant.
C13_RatioWithinUnit ==
    /\ 0 <= voiceActivityRatio.voice
    /\ voiceActivityRatio.voice <= voiceActivityRatio.elapsed

(***************************************************************************)
(* SpecDebounce: capture buffers, their handleAudioForInterrupt goroutines *)
(* and the debounce timers, against the wall clock.                        *)
(***************************************************************************)
NextDebounce ==
    \/ Tick
    \/ CaptureBegin
    \/ \E level \in Levels : CaptureEnd(level)
    \/ \E k \in Frames : HandlerRead(k)
    \/ \E k \in Frames : HandlerCheck(k)
    \/ \E k \in Frames : HandlerArm(k)
    \/ \E k \in Frames : HandlerCancel(k)
    \/ \E k \in Frames : TimerFire(k)
    \/ \E k \in Frames : TimerDone(k)

SpecDebounce == InitDefault /\ [][NextDebounce]_vars

(***************************************************************************)
(*                   Claims about the auto-interrupt debounce              *)
(***************************************************************************)
\* Buffers i..j are one above-threshold run.
HighRun(i, j) == \A m \in i..j : dbFrames[m].level = "high"

\* Timer t belongs to a run shorter than the window that low buffer k
\* ended, and k's handler had returned when t fired.
ShortRunEndedBy(t, k) ==
    /\ k \in timers[t].lowDone
    /\ t < k
    /\ HighRun(t, k - 1)
    /\ \E i \in 1..t : HighRun(i, t) /\ dbFrames[k].at - dbFrames[i].at < DebounceTicks

\* C14.  Debounce, negative case: when an above-threshold run shorter than
\* the debounce window is followed by a buffer at or below the threshold
\* and that buffer has been handled, no timer of that run calls Interrupt.
C14_NoInterruptForShortRun ==
    \A t \in Frames :
        timers[t].st \in {"running", "done"} =>
            ~\E k \in DOMAIN dbFrames : ShortRunEndedBy(t, k)

\* C15.  Debounce, positive case: one uninterrupted above-threshold run
\* triggers at most one call of Interrupt, however long it lasts and
\* however the handler invocations interleave.
C15_OneInterruptPerRun ==
    (dbFrames # <<>> /\ HighRun(1, Len(dbFrames))) => interruptCalls <= 1

(***************************************************************************)
(* SpecHistory: commits, imports and SetMaxHistory calls, for every        *)
(* configured bound from 0 to MaxHistoryBound.                             *)
(***************************************************************************)
InitHistory ==
    /\ maxReconnectAttempts = DefaultMaxReconnectAttempts
    /\ NewWebSocketClient
    /\ NewAudioProcessor
    /\ NewHandlerLists
    /\ codecIn = <<>> /\ CodecFresh
    /\ channels = DefaultChannels /\ StatsFresh
    /\ NewConversation
    /\ maxHistory \in 0..MaxHistoryBound /\ HistoryFresh
    /\ refreshBuffer = DefaultTokenRefreshBuffer /\ NewTokenManager
    /\ NewVocalsClient
    /\ NewSession
    /\ NewRetry
    /\ NewUtterance
    /\ NewInterruption
    /\ NewCapture
    /\ NewFanOut
    /\ NewStreamStats
    /\ NewBuffer
    /\ NewAmplitude
    /\ NewPlayWait
    /\ NewCleanup
    /\ NewAutoInterrupt

NextHistory ==
    \/ \E empty \in BOOLEAN : FinalTranscription(empty)
    \/ \E empty \in BOOLEAN : ResponseMessage(empty)
    \/ SendText
    \/ \E n \in 0..MaxImport : ImportHistory(n)
    \/ \E max \in -1..MaxHistoryBound : SetMaxHistory(max)

SpecHistory == InitHistory /\ [][NextHistory]_vars

\* C16, as stated.  History bound with FIFO eviction: the history has at
\* most MaxHistory turns, and when more than MaxHistory turns were
\* committed it is exactly the most recent MaxHistory committed turns.
C16_HistoryBound ==
    /\ Len(history) <= maxHistory
    /\ Len(allCommitted) > maxHistory =>
          /\ Len(history) = maxHistory
          /\ history = LastN(allCommitted, maxHistory)

\* C16, amended.  The history has at most MaxHistory turns and is always
\* the most recent turns, in commit order, of those committed since the
\* last ImportHistory (the imported turns included); it has exactly
\* MaxHistory turns when more than MaxHistory of them were committed and
\* SetMaxHistory has not raised the bound since.
C16_HistoryBoundSinceImport ==
    /\ Len(history) <= maxHistory
    /\ history = LastN(sinceImport, Len(history))
    /\ (~maxRaised /\ Len(sinceImport) > maxHistory) => Len(history) = maxHistory

\* An eviction has happened: three turns committed under a bound of two.
C16_Evicted ==
    /\ maxHistory = 2
    /\ ~maxRaised
    /\ Len(sinceImport) = 3
    /\ Len(history) = 2
    /\ history[1] = sinceImport[2]

(***************************************************************************)
(* SpecAPLive: the playback queue with every control operation, segments   *)
(* of one segment id, and the Go scheduler's guarantee that runnable       *)
(* goroutines (a spawned playNextSegment, a play cycle between two of its  *)
(* steps) do not all stay unscheduled for ever.                            *)
(***************************************************************************)
\* A step of a playNextSegment goroutine.
PlayStep ==
    \/ PlayNext
    \/ \E c \in Payloads : PlayDecode(c)
    \/ \E c \in Payloads : PlayOpen(c)
    \/ \E c \in Payloads : PlayStart(c)
    \/ \E c \in Payloads : PlayWait(c)
    \/ \E c \in Payloads : PlayFinish(c)

NextAPLive ==
    \/ /\ Len(addLog) < MaxLiveAdds
       /\ \E num \in SentenceNumbers, valid \in BOOLEAN :
              AddToQueue(CHOOSE id \in SegmentIDs : TRUE, num, valid)
    \/ PlayStep
    \/ ctl < MaxLiveCtl /\ ClearQueue
    \/ ctl < MaxLiveCtl /\ PausePlayback
    \/ ctl < MaxLiveCtl /\ ResumePlayback
    \/ ctl < MaxLiveCtl /\ StopPlayback
    \/ ctl < MaxLiveCtl /\ \E consumeAll \in BOOLEAN : ProcessQueue(consumeAll)

SpecAPLive ==
    /\ InitDefault
    /\ [][NextAPLive]_vars
    /\ WF_vars(PlayStep)

\* The segment with payload c is pending in the queue.
Pending(c) == \E i \in DOMAIN audioQueue : audioQueue[i].AudioData = c

\* C17.  A bad segment cannot stall the queue: every segment accepted into
\* the queue eventually leaves it, popped by a play cycle unless ClearQueue
\* or ProcessQueue removed it first, whatever happens to earlier segments.
C17_NoStall == \A c \in Payloads : Pending(c) ~> ~Pending(c)

\* The second segment was popped after the first failed to decode.
C17_PoppedAfterFailure ==
    /\ Len(addLog) >= 2
    /\ ~addLog[1].valid
    /\ cyclePc[1] = "done"
    /\ popLog = <<1, 2>>

\* C18.  ClearQueue leaves the queue empty and the state Idle, and no
\* segment that was pending when it was called is in the queue or begins
\* playback afterwards.
C18_ClearedNeverPlays ==
    /\ [][ClearQueue => (audioQueue' = <<>> /\ playbackState' = "Idle")]_vars
    /\ [](\A c \in cleared :
            /\ ~Pending(c)
            /\ \A i \in DOMAIN popLog : popLog[i] # c
            /\ cyclePc[c] = "none")

\* ClearQueue dropped a pending segment while a play cycle was in flight,
\* and that cycle has since finished.
C18_ClearedInFlight ==
    /\ cleared = {2}
    /\ popLog = <<1>>
    /\ cyclePc[1] = "done"
    /\ playSpawned = 0

(***************************************************************************)
(* SpecToken: GetToken and Clear calls against the wall clock, for every   *)
(* refresh buffer from 0 to MaxBuffer half seconds.                        *)
(***************************************************************************)
InitToken ==
    /\ maxReconnectAttempts = DefaultMaxReconnectAttempts
    /\ NewWebSocketClient
    /\ NewAudioProcessor
    /\ NewHandlerLists
    /\ codecIn = <<>> /\ CodecFresh
    /\ channels = DefaultChannels /\ StatsFresh
    /\ NewConversation
    /\ maxHistory = DefaultMaxHistory /\ HistoryFresh
    /\ refreshBuffer \in 0..MaxBuffer /\ NewTokenManager
    /\ NewVocalsClient
    /\ NewSession
    /\ NewRetry
    /\ NewUtterance
    /\ NewInterruption
    /\ NewCapture
    /\ NewFanOut
    /\ NewStreamStats
    /\ NewBuffer
    /\ NewAmplitude
    /\ NewPlayWait
    /\ NewCleanup
    /\ NewAutoInterrupt

NextToken ==
    \/ TokenTick
    \/ GetTokenCached
    \/ \E ok \in BOOLEAN, ttl \in 0..MaxTTL : GetTokenRefresh(ok, ttl)
    \/ TokenClear

SpecToken == InitToken /\ [][NextToken]_vars

\* C19.  Every token GetToken returns without an error expires at least
\* refreshBuffer seconds after the moment of the call, and a cached token
\* is returned only when now < expiry - refreshBuffer.
C19_ValidForBuffer ==
    ~tmReturned.err =>
        /\ tmReturned.expiresAt - tmReturned.at >= refreshBuffer
        /\ tmReturned.cached => tmReturned.at < tmReturned.expiresAt - refreshBuffer

(***************************************************************************)
(* SpecTts: the message loop feeding the orchestrator's internal handler,  *)
(* and the play cycles its AddToQueue calls start.                         *)
(***************************************************************************)
NextTts ==
    \/ LoopStart
    \/ \E msg \in Messages : HandleMessage(msg)
    \/ ReadError
    \/ \E m \in 1..MaxInbound : InternalHandler(m)
    \/ PlayStep

SpecTts == InitDefault /\ [][NextTts]_vars

\* A tts_audio message whose data is not a map, or whose segment id or
\* audio payload is missing or the empty string.
EmptyOrMissing(msg) ==
    /\ msg.Type = "tts_audio"
    /\ \/ ~msg.Data.isMap
       \/ msg.Data.segment_id \in {JAbsent, JString("")}
       \/ msg.Data.audio_data \in {JAbsent, JString("")}

\* C20.  The internal handler drops an inbound tts_audio message whose
\* segment id or audio payload is empty or missing, or whose data is not a
\* key/value map: its run leaves the playback queue, the active segment and
\* the playback state unchanged, spawns no play cycle, and leaves the
\* receive loop where it was.
C20_MalformedDropped ==
    [][\A m \in 1..MaxInbound :
          (m \in ttsPending /\ m \notin ttsPending' /\ EmptyOrMissing(inbound[m]))
             => /\ UNCHANGED <<audioQueue, currentSegment, playbackState>>
                /\ UNCHANGED <<playSpawned, addLog>>
                /\ ttsLoop' = ttsLoop]_vars

\* A malformed tts_audio message was handled while the segment of an
\* earlier message was playing, and the loop is still reading.
C20_DroppedWhilePlaying ==
    /\ ttsHandled = <<1, 2>>
    /\ ~EmptyOrMissing(inbound[1])
    /\ EmptyOrMissing(inbound[2])
    /\ currentSegment # 0
    /\ playbackState = "Playing"
    /\ Len(audioQueue) = 0
    /\ ttsLoop = "reading"

(***************************************************************************)
(* SpecSession: one EnsureConnected call, direct Connect calls, the        *)
(* capture sink and automatic reconnection.                                *)
(***************************************************************************)
NextSession ==
    \/ \E ok \in BOOLEAN : SessConnect(ok)
    \/ EcCall
    \/ \E ok \in BOOLEAN : EcConnect(ok)
    \/ EcTick
    \/ EcTimeout
    \/ EcSettings
    \/ SessStartRecording
    \/ CaptureSink
    \/ SessReadError
    \/ \E ok \in BOOLEAN : SessHandleReconnect(ok)

SpecSession == InitDefault /\ [][NextSession]_vars

\* C21.  On every connection that reached state Connected, whether
\* established by Connect, by EnsureConnected or by an automatic
\* reconnection, the settings event is written at most once and before any
\* media frame: whatever was written on the connection starts with the
\* settings event and holds no second one.
C21_SettingsFirst ==
    \A k \in SessConns :
        (sessOrigin[k] # "none" /\ sessSent[k] # <<>>) =>
            /\ sessSent[k][1] = "settings"
            /\ \A i \in 2..Len(sessSent[k]) : sessSent[k][i] # "settings"

\* C22.  Every step that changes the connection state spawns exactly one
\* notification for the connection subscriber, carrying the new state, and
\* a step that leaves the state as it was, a setState call with the state
\* the client already has included, spawns none; so the notifications
\* spawned are one per actual state change.
C22_OneNotificationPerChange ==
    [][/\ state' # state => connNotes' = Append(connNotes, state')
       /\ state' = state => connNotes' = connNotes]_vars

\* A reconnection has exhausted its attempts: connectWithRetry set Error and
\* handleReconnect then called setState(Error) again, and the subscriber was
\* notified of Error once.
C22_SameStateWrite ==
    \E k \in Loops :
        /\ pc[Recon(k)] = "done"
        /\ notes[Recon(k)] = 2
        /\ state = "Error"
        /\ Cardinality({i \in DOMAIN connNotes : connNotes[i] = "Error"}) = 1

(***************************************************************************)
(* SpecWSLive: Connect and SendMessage calls by the users, the inbound     *)
(* loops and the reconnection goroutines, no Disconnect.  A goroutine that *)
(* can take its next step is eventually scheduled; a user is not obliged   *)
(* to call anything and the server is not obliged to send or to fail.      *)
(***************************************************************************)
GoroutineStep ==
    \/ \E t \in Callers : ConnectEnter(t)
    \/ \E t \in Callers : ConnectRet(t)
    \/ \E p \in Procs : CwrDial(p)
    \/ \E p \in Procs : CwrAfter(p)
    \/ \E k \in Loops : HrEnter(k)
    \/ \E k \in Loops : HrRet(k)
    \/ \E t \in Callers : SendWrite(t)
    \/ \E t \in Callers : SendRet(t)
    \/ \E k \in Loops : LoopSelect(k)
    \/ \E k \in Loops : LoopRead(k)
    \/ \E k \in Loops : LoopFailed(k)
    \/ \E k \in Loops : LoopReconnect(k)
    \/ \E k \in Loops : LoopDefer(k)

NextWSLive ==
    \/ \E t \in Callers : ConnectCall(t)
    \/ \E t \in Callers : SendMessage(t)
    \/ \E k \in Loops : LoopRecv(k)
    \/ GoroutineStep

SpecWSLive == Init /\ [][NextWSLive]_vars /\ WF_vars(GoroutineStep)

\* The inbound loop of the current connection is running.
LoopRunning == conn # 0 /\ loopPc[conn] \in {"select", "default", "reading"}

C24_ConnectedLoopWorks ==
    state = "Connected" =>
        /\ conn # 0
        /\ conn \notin closed
        /\ loopPc[conn] \notin {"defer", "done", "panic"}

(***************************************************************************)
(* SpecRetry: Connect and reconnection episodes under every configuration  *)
(* of the token step and every accepted MaxReconnectAttempts up to the     *)
(* bound.                                                                  *)
(***************************************************************************)
InitRetry ==
    /\ maxReconnectAttempts = DefaultMaxReconnectAttempts
    /\ NewWebSocketClient
    /\ NewAudioProcessor
    /\ NewHandlerLists
    /\ codecIn = <<>> /\ CodecFresh
    /\ channels = DefaultChannels /\ StatsFresh
    /\ NewConversation
    /\ maxHistory = DefaultMaxHistory /\ HistoryFresh
    /\ refreshBuffer = DefaultTokenRefreshBuffer /\ NewTokenManager
    /\ NewVocalsClient
    /\ NewSession
    /\ NewUtterance
    /\ NewInterruption
    /\ NewCapture
    /\ NewFanOut
    /\ NewStreamStats
    /\ NewBuffer
    /\ NewAmplitude
    /\ NewPlayWait
    /\ NewCleanup
    /\ NewAutoInterrupt
    /\ rtUseTokenAuth \in BOOLEAN
    /\ rtHasManager \in BOOLEAN
    /\ rtMax \in {n \in 0..(MaxAttempts + 1) : ValidateVocalsConfig(n)}
    /\ rtAttempts = 0
    /\ rtState = "Disconnected"
    /\ rtPc = "idle"
    /\ rtErr = "none"
    /\ rtLog = <<>>
    /\ rtEpisodes = 0

NextRetry ==
    \/ RtConnect
    \/ RtReconnect
    \/ \E r \in ConnectionResults(TRUE, TRUE) \cup ConnectionResults(TRUE, FALSE) :
           RtPerform(r)
    \/ RtAfter
    \/ RtReturn

SpecRetry == InitRetry /\ [][NextRetry]_vars

\* The causes of failure that are critical: the token cannot be obtained.
TokenFailures == {"failed to get token", "failed to generate token"}

\* C25.  Critical failures are not retried: within one Connect or
\* reconnection episode, a connection attempt that failed because the
\* bearer token could not be obtained is the last attempt of the episode.
C25_TokenFailureNotRetried ==
    \A i \in 1..(Len(rtLog) - 1) : rtLog[i] \notin TokenFailures

(***************************************************************************)
(* SpecConv: transcription messages, SendText and the sendToAI goroutines  *)
(* they spawn, for every MaxTextLength and MaxHistory from 1 up to the     *)
(* bounds.                                                                 *)
(***************************************************************************)
InitConv ==
    /\ maxReconnectAttempts = DefaultMaxReconnectAttempts
    /\ NewWebSocketClient
    /\ NewAudioProcessor
    /\ NewHandlerLists
    /\ codecIn = <<>> /\ CodecFresh
    /\ channels = DefaultChannels /\ StatsFresh
    /\ NewConversation
    /\ maxHistory \in 1..MaxHistoryBound /\ HistoryFresh
    /\ refreshBuffer = DefaultTokenRefreshBuffer /\ NewTokenManager
    /\ NewVocalsClient
    /\ NewSession
    /\ NewRetry
    /\ maxTextLength \in 1..MaxTextLimit
    /\ currentText = 0
    /\ aiPc = [g \in Prompters |-> "none"]
    /\ aiHistory = [g \in Prompters |-> 0]
    /\ aiSentAt = [g \in Prompters |-> 0]
    /\ aiGot = [g \in Prompters |-> 0]
    /\ responseChan = <<>>
    /\ respCount = 0
    /\ uttCount = 0
    /\ uttLast = NoUtterance
    /\ NewInterruption
    /\ NewCapture
    /\ NewFanOut
    /\ NewStreamStats
    /\ NewBuffer
    /\ NewAmplitude
    /\ NewPlayWait
    /\ NewCleanup
    /\ NewAutoInterrupt

NextConv ==
    \/ \E isMap \in BOOLEAN, text \in 0..MaxText, isFinal \in BOOLEAN :
           Transcription(isMap, text, isFinal)
    \/ ConvSendText
    \/ \E g \in Prompters : AiCopy(g)
    \/ \E g \in Prompters, ok \in BOOLEAN : AiSend(g, ok)
    \/ \E g \in Prompters : AiTimeout(g)

SpecConv == InitConv /\ [][NextConv]_vars

\* C26.  A transcription message with is_final set appends exactly one user
\* turn whose content is the pending text followed by the message's text,
\* leaves the pending buffer empty and spawns exactly one sendToAI; a
\* transcription message without is_final changes only the pending buffer.
C26_FinalCommitsUtterance ==
    [][(uttCount' = uttCount + 1 /\ uttLast'.isMap) =>
          IF uttLast'.isFinal
          THEN /\ history' = LastN(Append(history,
                                [role |-> "user",
                                 content |-> currentText + uttLast'.text]),
                                maxHistory)
               /\ currentText' = 0
               /\ Spawned' = Spawned + 1
          ELSE /\ history' = history
               /\ UNCHANGED <<aiPc, responseChan>>]_vars

(***************************************************************************)
(* SpecReply: prompts submitted by SendText, response messages and the     *)
(* waits of the sendToAI goroutines.                                       *)
(***************************************************************************)
NextReply ==
    \/ ConvSendText
    \/ \E isMap \in BOOLEAN, empty \in BOOLEAN : Response(isMap, empty)
    \/ \E g \in Prompters : AiCopy(g)
    \/ \E g \in Prompters, ok \in BOOLEAN : AiSend(g, ok)
    \/ \E g \in Prompters : AiReceive(g)
    \/ \E g \in Prompters : AiTimeout(g)

SpecReply == InitDefault /\ [][NextReply]_vars

\* C27.  A response that arrives while no prompt submission is waiting is
\* never consumed by the wait of a prompt submitted later: the response a
\* prompt's wait consumed arrived after that prompt was sent.
C27_ReplyArrivedAfterPrompt ==
    \A g \in Prompters : aiGot[g] # 0 => aiGot[g] > aiSentAt[g]

(***************************************************************************)
(* SpecInterrupt: interruption paths of the three origins with             *)
(* AutoInterrupt on or off, transcription messages filling the pending     *)
(* buffer, and the connection going down and up.  A goroutine inside       *)
(* Interrupt that can take its next step is eventually scheduled.          *)
(***************************************************************************)
InitInterrupt ==
    /\ maxReconnectAttempts = DefaultMaxReconnectAttempts
    /\ NewWebSocketClient
    /\ NewAudioProcessor
    /\ NewHandlerLists
    /\ codecIn = <<>> /\ CodecFresh
    /\ channels = DefaultChannels /\ StatsFresh
    /\ NewConversation
    /\ maxHistory = DefaultMaxHistory /\ HistoryFresh
    /\ refreshBuffer = DefaultTokenRefreshBuffer /\ NewTokenManager
    /\ NewVocalsClient
    /\ NewSession
    /\ NewRetry
    /\ NewUtterance
    /\ autoInterrupt \in BOOLEAN
    /\ intConnected = TRUE
    /\ intMu = 0
    /\ intKind = [g \in IntPaths |-> "none"]
    /\ intPc = [g \in IntPaths |-> "none"]
    /\ intSent = [g \in IntPaths |-> 0]
    /\ intFades = [g \in IntPaths |-> 0]
    /\ intFlips = 0
    /\ NewCapture
    /\ NewFanOut
    /\ NewStreamStats
    /\ NewBuffer
    /\ NewAmplitude
    /\ NewPlayWait
    /\ NewCleanup
    /\ NewAutoInterrupt

InterruptStep ==
    \/ \E g \in IntPaths : IntSend(g)
    \/ \E g \in IntPaths : IntFade(g)
    \/ \E g \in IntPaths : IntClear(g)

NextInterrupt ==
    \/ \E g \in IntPaths : IntServerBegin(g)
    \/ \E g \in IntPaths, kind \in IntKinds : IntLocalBegin(g, kind)
    \/ \E text \in 1..MaxText : IntTranscription(text)
    \/ IntConnFlip
    \/ InterruptStep

SpecInterrupt == InitInterrupt /\ [][NextInterrupt]_vars /\ WF_vars(InterruptStep)

\* C28.  An interruption path that found the connection Connected, whether
\* started by an interruption message of the server or by a local trigger,
\* sends exactly one interrupt message, requests one fade-out and finishes,
\* and the pending-utterance buffer is empty when it finishes.
C28_InterruptionCompletes ==
    /\ \A g \in IntPaths : (intSent[g] = 1) ~> (intPc[g] = "done")
    /\ [](\A g \in IntPaths :
              intPc[g] = "done" => intSent[g] = 1 /\ intFades[g] = 1)
    /\ [][\A g \in IntPaths :
              (intPc[g] # "done" /\ intPc'[g] = "done") => currentText' = 0]_vars

(***************************************************************************)
(* SpecCapture: the capture callback beside Connect calls and automatic    *)
(* reconnections.                                                          *)
(***************************************************************************)
NextCapture ==
    \/ CapConnect
    \/ CapReadError
    \/ CapReconnect
    \/ \E ok \in BOOLEAN : CapDialDone(ok)
    \/ CapSleepDone
    \/ CbInvoke
    \/ CbIsConnected
    \/ CbSendMessage
    \/ CbWriteDone

SpecCapture == InitDefault /\ [][NextCapture]_vars

\* C29.  The capture callback never waits on a network operation: while a
\* Connect or a reconnection is inside a handshake or a retry delay, the
\* callback is not waiting for it, and the callback itself is never inside
\* a network write.
C29_CallbackNeverWaits ==
    /\ ~(cbPc \in {"is_connected", "send"} /\ capMu = "connect"
            /\ capPc \in {"dial", "sleep"})
    /\ cbPc # "write"

(***************************************************************************)
(* SpecFanOut: AddXHandler and deregistration calls beside the fan-out     *)
(* loops of the message, connection, error and audio-frame dispatch.       *)
(***************************************************************************)
NextFanOut ==
    \/ \E k \in HandlerKinds : FanAddLock(k)
    \/ FanAddDone
    \/ \E k \in HandlerKinds, r \in Registrations : FanDeregLock(k, r)
    \/ FanDeregDone
    \/ \E s \in FanSites : FanBegin(s)
    \/ FanEnd

SpecFanOut == InitDefault /\ [][NextFanOut]_vars

\* C30.  Every fan-out loop over a handler list runs while its caller holds
\* the mutex that AddXHandler and the deregistration functions hold for that
\* list, so no loop runs while the list is being appended to or spliced.
C30_FanOutUnderListMutex ==
    fanSite # "none" =>
        /\ listMu[ListOwner(FanSiteOf(fanSite).kind)] = "dispatch"
        /\ mutKind # FanSiteOf(fanSite).kind

(***************************************************************************)
(* SpecFinal: one StreamMicrophoneWithStats call, its handler goroutines   *)
(* and a later recording session.                                          *)
(***************************************************************************)
NextFinal ==
    \/ FinTick
    \/ \E above \in BOOLEAN : FinCapture(above)
    \/ \E i \in 1..MaxFinFrames : FinHandle(i)
    \/ FinStop
    \/ FinReturn
    \/ FinRecordAgain

SpecFinal == InitDefault /\ [][NextFinal]_vars

\* C31.  The StreamStats value the call returned is final: once the call
\* has returned, every field of *stats keeps the value it had at the return.
C31_ReturnedStatsFinal ==
    finPc = "returned" => finStats = finReturned

(***************************************************************************)
(* SpecBuffer: transcription messages, Interrupt, ClearHistory and         *)
(* SetMaxTextLength calls, in any order.                                   *)
(***************************************************************************)
NextBuffer ==
    \/ \E text \in 0..MaxText, isFinal \in BOOLEAN : BufTranscription(text, isFinal)
    \/ \E sent \in BOOLEAN : BufInterrupt(sent)
    \/ BufClearHistory
    \/ \E length \in 0..MaxTextLimit : SetMaxTextLength(length)

SpecBuffer == InitDefault /\ [][NextBuffer]_vars

\* C32.  The pending-utterance buffer is never longer than MaxTextLength,
\* and no transcription handler fails.
C32_BufferWithinLimit ==
    /\ bufText <= bufLimit
    /\ ~bufFailed

(***************************************************************************)
(* SpecAmplitude: capture buffers with even sums, so that every mean is    *)
(* exact, and GetCurrentAmplitude calls at any point.                      *)
(***************************************************************************)
EvenFrames == {in \in AmpFrames : (in[1] + in[2]) % 2 = 0}

NextAmplitude ==
    \/ \E in \in EvenFrames : AmpReset(in)
    \/ AmpAdd
    \/ AmpDivide
    \/ GetCurrentAmplitude

SpecAmplitude == InitDefault /\ [][NextAmplitude]_vars

\* C33.  Every value GetCurrentAmplitude returns is the initial 0 or the
\* mean of a buffer processed completely, and is not read while the
\* callback is between its reset and its division.
C33_NoIntermediateAmplitude ==
    \A i \in DOMAIN ampReads :
        /\ ~ampReads[i].during
        /\ ampReads[i].value \in ({0} \cup ampMeans)

(***************************************************************************)
(* SpecPlayWait: one play cycle for every segment length and sample rate   *)
(* within the bounds.                                                      *)
(***************************************************************************)
NextPlayWait ==
    \/ \E n \in 0..MaxPlaySamples, rate \in PlayRates : PtStart(n, rate)
    \/ PtRender
    \/ PtCompleted
    \/ PtTimedOut

SpecPlayWait == InitDefault /\ [][NextPlayWait]_vars

\* C34.  The completion wait's timeout is 1.5 times the segment's nominal
\* duration (2 * rate * timeout = 3 * samples), and the timeout does not
\* fire before a normally rendering segment has finished.
C34_TimeoutIsOneAndAHalf ==
    /\ ptPc # "idle" => 2 * ptRate * ptTimeout = 3 * ptSamples
    /\ ptPc = "timeout" => sampleIndex >= ptSamples

(***************************************************************************)
(*        Further claims about the auto-interrupt debounce (SpecDebounce)  *)
(***************************************************************************)
\* C35.  At most one debounce timer is outstanding at any time: of the
\* timers created by the handlers, at most one is armed, that is, has
\* neither fired nor been stopped.
C35_OneTimerOutstanding ==
    Cardinality({k \in Frames : timers[k].st = "armed"}) <= 1

(***************************************************************************)
(*      Further claims about interruptions (SpecInterrupt)                 *)
(***************************************************************************)
\* C36.  Handling a server-originated interruption message terminates and
\* releases the conversation mutex: whenever the handler of such a message
\* holds c.mu, it later holds it no more, so that later messages and
\* calls that lock c.mu can go on.
C36_ServerInterruptionReleasesMu ==
    \A g \in IntPaths : (intMu = g) ~> (intMu # g)

(***************************************************************************)
(*      Further claims about the inbound loop (SpecWS)                     *)
(***************************************************************************)
\* C37.  A messageLoop that exits after a read failure and has spawned the
\* reconnection closes only the connection it was reading: its exit adds
\* none but its own connection to the closed ones.
C37_ExitClosesOwnTransport ==
    [][\A k \in Loops :
          (loopPc[k] = "defer" /\ loopPc'[k] = "done" /\ pc[Recon(k)] # "none")
              => closed' \subseteq closed \cup {k}]_vars

\* C38.  The messageLoop never attempts a read on a missing transport: no
\* loop reaches ReadJSON while wsc.conn is nil.
C38_NoReadOnMissingTransport ==
    \A k \in Loops : loopPc[k] # "panic"

(***************************************************************************)
(* SpecCleanup: inbound messages of every type before and after one        *)
(* Cleanup call.                                                           *)
(***************************************************************************)
NextCleanup ==
    \/ Cleanup
    \/ \E msgType \in MsgTypes, isMap \in BOOLEAN : ClMessage(msgType, isMap)

SpecCleanup == InitDefault /\ [][NextCleanup]_vars

\* C39.  After Cleanup has returned, the messages still dispatched to the
\* conversation's handler are handled without failure.
C39_MessagesAfterCleanupHandled ==
    clClosed => ~clFailed

(***************************************************************************)
(* SpecAutoInterrupt: a conversation created with auto-interrupt on or     *)
(* off, EnableAutoInterrupt calls and capture frames.                      *)
(***************************************************************************)
NextAutoInterrupt ==
    \/ \E auto \in BOOLEAN : AcNewConversation(auto)
    \/ \E enable \in BOOLEAN : EnableAutoInterrupt(enable)
    \/ \E above \in BOOLEAN : AcFrame(above)
    \/ AcTimerFire

SpecAutoInterrupt == InitDefault /\ [][NextAutoInterrupt]_vars

\* C40.  The setting in force decides: while auto-interrupt is off no
\* capture frame starts a debounce timer, and while it is on an
\* above-threshold run under way has a timer running or has sent its
\* interrupt.
C40_SettingInForceDecides ==
    /\ [][(acCreated /\ ~acAuto /\ ~acAuto') => ~(~acTimer /\ acTimer')]_vars
    /\ []((acCreated /\ acAuto /\ acHighRun >= 1) => (acTimer \/ acInterrupts >= 1))

====
